---------------------------- MODULE Spec2Model ----------------------------
(***************************************************************************)
(* LEADS (oliveiraclick/LEADS): the reconciliation of the local cache with *)
(* the remote store at startup (App.tsx, init), the remote store helpers   *)
(* (services/supabase.ts) and the handlers that change the in-memory       *)
(* campaign and lead lists during a session (mining, status change,        *)
(* contact, pitch, folder deletion, duplicate cleanup).                    *)
(*                                                                         *)
(* Text (niches, phones) is a sequence of one-character strings so that    *)
(* normalize can be computed character by character; ids are strings.      *)
(* A JavaScript Map is a sequence of [key, val] entries in insertion       *)
(* order: set() on a present key replaces the value in place, on an absent *)
(* key appends.                                                            *)
(***************************************************************************)
EXTENDS Integers, Sequences, FiniteSets, TLC

VARIABLES
    localCampaigns,   \* localStorage slot CAMPAIGNS_KEY (<<>>: never written)
    localLeads,       \* localStorage slot LEADS_KEY
    cloudCampaigns,   \* remote table campaigns, in createdAt order
    cloudLeads,       \* remote table leads
    campaigns,        \* React state campaigns
    leads,            \* React state leads
    cloudStatus,      \* React state cloudStatus
    initPc,           \* position of init(): "load", "cleanup", "done"
    initPath,         \* how init() ended: "none", "merged" (line 102), "catch" (line 106)
    savedC,           \* init: rawCampaigns as parsed from localStorage (line 47)
    savedL,           \* init: rawLeads as parsed from localStorage (line 48)
    cData,            \* init: cData of line 55 (Null when the select gave no data)
    lData,            \* init: lData of line 56
    mergedCampaigns,  \* init: rawCampaigns after line 64
    mergedLeads,      \* init: rawLeads after line 70
    rawCampaigns,     \* init: rawCampaigns
    rawLeads,         \* init: rawLeads
    campaignsToRemove,\* init: campaignsToRemove
    leadRemapping,    \* init: leadRemapping
    delStage,         \* init: the deleteCampaignFromCloud calls of line 96, one per
                      \* index of campaignsToRemove: "campaign", "leads", "done"
    settledAtSave,    \* init: how many of them had settled when line 97 was issued (-1: not issued)
    writeFailures,    \* how many remote writes have failed so far
    clock,            \* the time, as Date.now() and new Date() read it
    gestures,         \* how many handlers the user has started
    runs,             \* how many of them were mining runs
    activeCampaignId, \* React state activeCampaignId ("" for null)
    selectedLead,     \* React state selectedLead (<<>> for null, else <<lead>>)
    isMining,         \* React state isMining
    errorMessage,     \* React state errorMessage ("" for null)
    miningProgress,   \* React state miningProgress (<<>> for null, else <<record>>)
    activeTab,        \* React state activeTab, once the timer of line 282 has fired
    \* The locals of handleStartMining, one value per invocation (run):
    minePc,           \* position: "idle", "saveCampaign", "search", "saveLeads", "done"
    targetCampaignId, \* targetCampaignId
    pendingCampaign,  \* the campaign handed to saveCampaignToCloud
    closureLeads,     \* leads, as the render that made the handler saw it
    closureError,     \* errorMessage, as the render that made the handler saw it
    neighborhoods,    \* selectedNeighborhoods
    mineIdx,          \* i + 1
    currentLeadsState,\* currentLeadsState
    batchToSave,      \* batchToSave
    totalNew,         \* totalNew
    totalSkipped,     \* totalSkipped
    processedBairros, \* processedBairros
    errors,           \* the errors caught at line 262, in order: [at, err, message]
    navScheduled,     \* whether line 282 set the timer
    fold,             \* the last batch folded (lines 231-247): <<>> or <<record>>
    prevFold,         \* the batch folded before it
    pitchPc,          \* position of handleGeneratePitch: "idle", "generate"
    pitchLead,        \* handleGeneratePitch: lead
    contacted,        \* WhatsApp onClick: the status of the lead before and after the last click
    delPc,            \* position of handleDeleteCampaign: "idle", "row", "leads"
    idsToDelete,      \* handleDeleteCampaign: idsToDelete
    delIdx,           \* handleDeleteCampaign: position in idsToDelete
    delActive,        \* handleDeleteCampaign: activeCampaignId, as its render saw it
    delNiche,         \* handleDeleteCampaign: normalize(campaign.niche)
    delFailed,        \* whether a request of the deletion under way has failed
    cleanPc,          \* position of handleCleanDuplicates: "idle", "delete"
    dupesFound,       \* handleCleanDuplicates: dupesFound
    cleanIdx,         \* handleCleanDuplicates: position in dupesFound
    cleanFailed,      \* whether a request of the cleanup under way has failed
    scan,             \* handleCleanDuplicates: targetLeads, dupesFound and the answer to
                      \* confirm() of the last scan
    notice,           \* the last alert() shown by the folder handlers
    destroyed,        \* the campaign ids and the lead keys that ended folder deletions and
                      \* cleanups have removed, in this page and in the pages before it
    vcardContent,     \* performExport: the TEL values of the last .vcf file, one per lead
    normalized        \* a text, followed by what normalize makes of it, applied in turn

startupVars == <<savedC, savedL, cData, lData, mergedCampaigns, mergedLeads,
                 rawCampaigns, rawLeads, campaignsToRemove, leadRemapping,
                 delStage, settledAtSave, initPc, initPath>>
storeVars == <<localCampaigns, localLeads, cloudCampaigns, cloudLeads, writeFailures>>
appVars == <<campaigns, leads, cloudStatus>>
uiVars == <<activeCampaignId, selectedLead, errorMessage>>
runVars == <<minePc, targetCampaignId, pendingCampaign, closureLeads, closureError,
             neighborhoods, mineIdx, currentLeadsState, batchToSave, totalNew, totalSkipped,
             processedBairros, errors, navScheduled>>
mineVars == <<isMining, miningProgress, activeTab, runVars, fold, prevFold>>
pitchVars == <<pitchPc, pitchLead, contacted>>
delVars == <<delPc, idsToDelete, delIdx, delActive, delNiche, delFailed>>
cleanVars == <<cleanPc, dupesFound, cleanIdx, cleanFailed, scan>>
folderVars == <<delVars, cleanVars, notice, destroyed>>
sessionVars == <<clock, gestures, runs, uiVars, mineVars, pitchVars, folderVars>>
pureVars == <<vcardContent, normalized>>
vars == <<startupVars, storeVars, appVars, sessionVars, pureVars>>

(* The data of a select: an array, or null *)
Null == [isNull |-> TRUE, rows |-> <<>>]
Data(rows) == [isNull |-> FALSE, rows |-> rows]

-----------------------------------------------------------------------------
(* Bounds of the model. *)
MaxRecords == 4         \* records held by the two replicas together at startup
MaxWriteFailures == 1   \* remote writes that fail
MaxGestures == 3        \* handlers the user starts in a session
MaxRuns == 2            \* mining runs among them
Runs == 1..MaxRuns
MaxBatch == 2           \* businesses in one search result
MaxScan == 3            \* leads in memory when duplicates are looked for
MaxExport == 2          \* leads in the exported list
MaxText == 3            \* characters of a text handed to normalize

-----------------------------------------------------------------------------
(* Sequences *)

Range(s) == {s[i] : i \in DOMAIN s}

SeqsUpTo(S, n) == UNION {[1..k -> S] : k \in 0..n}

MapSeq(s, Op(_)) == [i \in DOMAIN s |-> Op(s[i])]

NoRepeat(s) == \A i, j \in DOMAIN s : s[i] = s[j] => i = j

-----------------------------------------------------------------------------
(* Text normalization: (text || '').toLowerCase().replace(/[^a-z0-9]/g, '').trim() *)

(* The texts of the model are written with the letters p and q in both cases,
   the lower-case letters a, b, c, d, the digits, the space and "!". *)
toLowerCase(c) ==
    CASE c = "P" -> "p"
      [] c = "Q" -> "q"
      [] OTHER -> c

(* String.prototype.toUpperCase, on one character *)
toUpperCase(c) ==
    CASE c = "p" -> "P"
      [] c = "q" -> "Q"
      [] OTHER -> c

IsDigit(c) == c \in {"0", "1", "2", "5", "9"}

IsAlnum(c) == IsDigit(c) \/ c \in {"a", "b", "c", "d", "p", "q"}

trim(text) ==
    LET keep == {i \in DOMAIN text : text[i] # " "}
    IN IF keep = {} THEN <<>>
       ELSE LET lo == CHOOSE i \in keep : \A j \in keep : i <= j
                hi == CHOOSE i \in keep : \A j \in keep : j <= i
            IN SubSeq(text, lo, hi)

(* Lower case and trimmed, punctuation kept *)
normalizeKeepsPunctuation(text) == trim(MapSeq(text, toLowerCase))

normalize(text) == trim(SelectSeq(MapSeq(text, toLowerCase), IsAlnum))

(* The characters of a text, as one string *)
RECURSIVE Join(_)
Join(text) == IF text = <<>> THEN "" ELSE Head(text) \o Join(Tail(text))

(* substring(0, n) *)
Substring0(text, n) == SubSeq(text, 1, IF Len(text) < n THEN Len(text) ELSE n)

(* slice(-n) *)
SliceLast(text, n) == SubSeq(text, IF Len(text) > n THEN Len(text) - n + 1 ELSE 1, Len(text))

(* services/gemini.ts, createNormalizedId *)
createNormalizedId(name, phone, neighborhood) ==
    LET cleanName == Substring0(SelectSeq(MapSeq(name, toLowerCase), IsAlnum), 15)
        cleanPhone == SliceLast(SelectSeq(phone, IsDigit), 8)
        cleanNeighborhood == Substring0(SelectSeq(MapSeq(neighborhood, toLowerCase), IsAlnum), 10)
    IN Join(cleanName) \o "_" \o Join(cleanNeighborhood) \o "_" \o Join(cleanPhone)

-----------------------------------------------------------------------------
(* JavaScript Map, as a sequence of entries in insertion order. *)

MapHas(m, k) == \E i \in DOMAIN m : m[i].key = k

MapGet(m, k) == m[CHOOSE i \in DOMAIN m : m[i].key = k].val

MapSet(m, k, v) ==
    IF MapHas(m, k)
    THEN [i \in DOMAIN m |-> IF m[i].key = k THEN [key |-> k, val |-> v] ELSE m[i]]
    ELSE Append(m, [key |-> k, val |-> v])

RECURSIVE MapSetAll(_, _)
MapSetAll(m, entries) ==
    IF entries = <<>> THEN m
    ELSE MapSetAll(MapSet(m, Head(entries).key, Head(entries).val), Tail(entries))

MapValues(m) == [i \in DOMAIN m |-> m[i].val]

(* The key of a lead in the maps of init: `${l.id}_${l.campaignId}` *)
LeadKey(l) == l.id \o "_" \o l.campaignId

ById(c) == [key |-> c.id, val |-> c]
ByLeadKey(l) == [key |-> LeadKey(l), val |-> l]

(* UnionCampaigns filling the map from cData first: the local copy wins *)
UnionCampaignsLocalWins(local, remote) ==
    MapValues(MapSetAll(MapSetAll(<<>>, MapSeq(remote, ById)), MapSeq(local, ById)))

(* lines 60-63: cMap filled from the local list, then from cData *)
UnionCampaigns(local, remote) ==
    MapValues(MapSetAll(MapSetAll(<<>>, MapSeq(local, ById)), MapSeq(remote, ById)))

(* lines 66-69: lMap filled from the local list, then from lData *)
UnionLeads(local, remote) ==
    MapValues(MapSetAll(MapSetAll(<<>>, MapSeq(local, ByLeadKey)), MapSeq(remote, ByLeadKey)))

(* UniqueLeads without the deduplication *)
UniqueLeadsNone(ls) == ls

(* line 100: Array.from(new Map(rawLeads.map(l => [key, l])).values()) *)
UniqueLeads(ls) == MapValues(MapSetAll(<<>>, MapSeq(ls, ByLeadKey)))

-----------------------------------------------------------------------------
(* init, lines 72-94: the duplicate-campaign collapse and the lead remap *)

(* NicheKey comparing the niche as typed *)
NicheKeyRaw(c) == c.niche

NicheKey(c) == normalize(c.niche)

(* CollapseStep keeping the campaign met last instead of the one met first *)
CollapseStepLastWins(acc, c) ==
    IF MapHas(acc.nicheMap, NicheKey(c))
    THEN [acc EXCEPT !.campaignsToRemove = Append(@, MapGet(acc.nicheMap, NicheKey(c)).id),
                     !.leadRemapping = MapSet(@, MapGet(acc.nicheMap, NicheKey(c)).id, c.id),
                     !.nicheMap = MapSet(@, NicheKey(c), c)]
    ELSE [acc EXCEPT !.nicheMap = MapSet(@, NicheKey(c), c)]

(* lines 77-86, the body of rawCampaigns.forEach *)
CollapseStep(acc, c) ==
    IF MapHas(acc.nicheMap, NicheKey(c))
    THEN [acc EXCEPT !.campaignsToRemove = Append(@, c.id),
                     !.leadRemapping = MapSet(@, c.id, MapGet(acc.nicheMap, NicheKey(c)).id)]
    ELSE [acc EXCEPT !.nicheMap = MapSet(@, NicheKey(c), c)]

RECURSIVE CollapseFrom(_, _)
CollapseFrom(acc, cs) ==
    IF cs = <<>> THEN acc ELSE CollapseFrom(CollapseStep(acc, Head(cs)), Tail(cs))

Collapse(cs) ==
    CollapseFrom([nicheMap |-> <<>>, campaignsToRemove |-> <<>>, leadRemapping |-> <<>>], cs)

(* RemapLead leaving the lead where it was *)
RemapLeadNone(remap, l) == l

(* line 93: campaignId: leadRemapping[l.campaignId] || l.campaignId *)
RemapLead(remap, l) ==
    IF MapHas(remap, l.campaignId) /\ MapGet(remap, l.campaignId) # ""
    THEN [l EXCEPT !.campaignId = MapGet(remap, l.campaignId)]
    ELSE l

RemapLeads(remap, ls) == [i \in DOMAIN ls |-> RemapLead(remap, ls[i])]

-----------------------------------------------------------------------------
(* The remote store (services/supabase.ts) *)

(* upsert(leads, { onConflict: 'id,campaignId' }) *)
CloudUpsertLeads(tbl, batch) ==
    LET RowKey(l) == [key |-> <<l.id, l.campaignId>>, val |-> l]
    IN MapValues(MapSetAll(MapSeq(tbl, RowKey), MapSeq(batch, RowKey)))

(* from('campaigns').upsert(campaign) *)
CloudUpsertCampaign(tbl, c) == MapValues(MapSet(MapSeq(tbl, ById), c.id, c))

(* from('campaigns').delete().eq('id', id) *)
CloudDeleteCampaignRow(tbl, id) == SelectSeq(tbl, LAMBDA c : c.id # id)

(* CloudDeleteLeadsOf without the cascade *)
CloudDeleteLeadsOfNone(tbl, id) == tbl

(* from('leads').delete().eq('campaignId', id) *)
CloudDeleteLeadsOf(tbl, id) == SelectSeq(tbl, LAMBDA l : l.campaignId # id)

(* from('leads').delete().match({ id, campaignId }) *)
CloudDeleteLead(tbl, id, campaignId) ==
    SelectSeq(tbl, LAMBDA l : ~(l.id = id /\ l.campaignId = campaignId))

(* The outcome of one request to the store: it is applied, it comes back with
   an error (supabase-js resolves with { error }), or the call throws. *)
Outcomes == {"ok", "error", "throw"}

(* A write that does not succeed is counted; the model follows at most
   MaxWriteFailures of them. *)
WriteOutcome(out) ==
    /\ out # "ok" => writeFailures < MaxWriteFailures
    /\ writeFailures' = IF out = "ok" THEN writeFailures ELSE writeFailures + 1

-----------------------------------------------------------------------------
(* The persistence effect, lines 112-117: runs after every change of campaigns
   or leads and writes both slots when either list is non-empty. *)
PersistSlot(slot, value, c, l) == IF Len(c) > 0 \/ Len(l) > 0 THEN value ELSE slot

Persist ==
    /\ localCampaigns' = PersistSlot(localCampaigns, campaigns', campaigns', leads')
    /\ localLeads' = PersistSlot(localLeads, leads', campaigns', leads')

-----------------------------------------------------------------------------
(* The replicas a startup can find. Campaign ids are Date.now() strings (line
   185), lead ids are name_neighborhood_phone8 (createNormalizedId). A stored
   lead carries the fields of BusinessInfo the handlers read or write. *)

Niches == {<<"p">>, <<"P", "!">>, <<"q">>}

Campaign(id, niche, lastSyncAt) == [id |-> id, niche |-> niche, lastSyncAt |-> lastSyncAt]

Lead(id, campaignId, phone, status, lastSeenAt, notes) ==
    [id |-> id, campaignId |-> campaignId, phone |-> phone, status |-> status,
     lastSeenAt |-> lastSeenAt, notes |-> notes]

(* Campaign "1" is known to the local replica only, "3" to the remote one
   only, "2" to either or both, each with any of the niches. *)
LocalCampaignRows == {Campaign(id, n, 0) : id \in {"1", "2"}, n \in Niches}
CloudCampaignRows == {Campaign(id, n, 0) : id \in {"2", "3"}, n \in Niches}

(* The businesses a search can find: a and d, in neighbourhood c, answer the
   same telephone; b, in neighbourhood d, has none. A telephone is the 10 or
   11 digits searchBusinesses keeps. *)
PhoneOf(name) == IF name = <<"b">> THEN <<>> ELSE <<"1", "1", "9", "9", "9", "9", "0", "0", "0", "1">>
BusinessesIn(neighborhood) == IF neighborhood = <<"c">> THEN {<<"a">>, <<"d">>} ELSE {<<"b">>}

(* services/gemini.ts, lines 141-154: one parsed block *)
Business(name, neighborhood) ==
    [id |-> createNormalizedId(name, PhoneOf(name), neighborhood), phone |-> PhoneOf(name),
     status |-> "new", notes |-> ""]

(* The two replicas may hold different copies of one lead: the local copy
   is the one with status new, the remote one has been contacted. *)
LocalLeadRefs == {<<"a_c_99990001", "1">>, <<"a_c_99990001", "2">>, <<"b_c_", "1">>}
CloudLeadRefs == {<<"a_c_99990001", "2">>, <<"a_c_99990001", "3">>, <<"b_c_", "1">>}
StoredPhone(id) == IF id = "b_c_" THEN PhoneOf(<<"b">>) ELSE PhoneOf(<<"a">>)
LocalLeadRows == {Lead(r[1], r[2], StoredPhone(r[1]), "new", 0, "") : r \in LocalLeadRefs}
CloudLeadRows == {Lead(r[1], r[2], StoredPhone(r[1]), "contacted", 0, "") : r \in CloudLeadRefs}

IdSeq(cs) == [i \in DOMAIN cs |-> cs[i].id]
Ids(cs) == {cs[i].id : i \in DOMAIN cs}
Keys(ls) == {<<ls[i].id, ls[i].campaignId>> : i \in DOMAIN ls}

UniqueIds(cs) == \A i, j \in DOMAIN cs : cs[i].id = cs[j].id => i = j
UniqueKeys(ls) ==
    \A i, j \in DOMAIN ls :
        (ls[i].id = ls[j].id /\ ls[i].campaignId = ls[j].campaignId) => i = j

(* No handler has run. The clock is later than the ids of the stored campaigns. *)
InitHandlers ==
    /\ clock = 4
    /\ gestures = 0
    /\ runs = 0
    /\ activeCampaignId = ""
    /\ selectedLead = <<>>
    /\ isMining = FALSE
    /\ errorMessage = ""
    /\ miningProgress = <<>>
    /\ activeTab = "home"
    /\ minePc = [r \in Runs |-> "idle"]
    /\ targetCampaignId = [r \in Runs |-> ""]
    /\ pendingCampaign = [r \in Runs |-> <<>>]
    /\ closureLeads = [r \in Runs |-> <<>>]
    /\ closureError = [r \in Runs |-> ""]
    /\ neighborhoods = [r \in Runs |-> <<>>]
    /\ mineIdx = [r \in Runs |-> 0]
    /\ currentLeadsState = [r \in Runs |-> <<>>]
    /\ batchToSave = [r \in Runs |-> <<>>]
    /\ totalNew = [r \in Runs |-> 0]
    /\ totalSkipped = [r \in Runs |-> 0]
    /\ processedBairros = [r \in Runs |-> <<>>]
    /\ errors = [r \in Runs |-> <<>>]
    /\ navScheduled = [r \in Runs |-> FALSE]
    /\ fold = <<>>
    /\ prevFold = <<>>
    /\ pitchPc = "idle"
    /\ pitchLead = <<>>
    /\ contacted = <<>>
    /\ delPc = "idle"
    /\ idsToDelete = <<>>
    /\ delIdx = 0
    /\ delActive = ""
    /\ delNiche = <<>>
    /\ delFailed = FALSE
    /\ cleanPc = "idle"
    /\ dupesFound = <<>>
    /\ cleanIdx = 0
    /\ cleanFailed = FALSE
    /\ scan = <<>>
    /\ notice = ""
    /\ destroyed = [campaigns |-> {}, leads |-> {}]

(* Nothing exported, no text normalized *)
InitPure ==
    /\ vcardContent = <<>>
    /\ normalized = <<>>

InitStartup ==
    /\ InitPure
    /\ initPc = "load"
    /\ initPath = "none"
    /\ campaigns = <<>>
    /\ leads = <<>>
    /\ cloudStatus = "online"
    /\ savedC = <<>>
    /\ savedL = <<>>
    /\ cData = Null
    /\ lData = Null
    /\ mergedCampaigns = <<>>
    /\ mergedLeads = <<>>
    /\ rawCampaigns = <<>>
    /\ rawLeads = <<>>
    /\ campaignsToRemove = <<>>
    /\ leadRemapping = <<>>
    /\ delStage = <<>>
    /\ settledAtSave = -1
    /\ writeFailures = 0
    /\ InitHandlers

Init ==
    /\ InitStartup
    /\ localCampaigns \in {cs \in SeqsUpTo(LocalCampaignRows, MaxRecords) : UniqueIds(cs)}
    /\ cloudCampaigns \in
         {cs \in SeqsUpTo(CloudCampaignRows, MaxRecords - Len(localCampaigns)) : UniqueIds(cs)}
    /\ localLeads \in
         SeqsUpTo(LocalLeadRows, MaxRecords - Len(localCampaigns) - Len(cloudCampaigns))
    /\ cloudLeads \in
         {ls \in SeqsUpTo(CloudLeadRows, MaxRecords - Len(localCampaigns)
                                           - Len(cloudCampaigns) - Len(localLeads)) :
             UniqueKeys(ls)}

-----------------------------------------------------------------------------
(* init, lines 40-108 *)

(* lines 100-102 and 105-106, with the persistence effect they trigger *)
Publish(cs, ls) ==
    /\ campaigns' = cs
    /\ leads' = ls
    /\ Persist

(* lines 45-48 and 54-56: the two slots are read, the two selects are awaited.
   A select that fails resolves with data null or throws. Lines 58-94 follow
   without suspension; with nothing to remove, so do lines 100-102. *)
InitLoad(cOut, lOut) ==
    /\ initPc = "load"
    /\ savedC' = localCampaigns
    /\ savedL' = localLeads
    /\ IF cOut = "throw" \/ lOut = "throw"
       THEN /\ cloudStatus' = "offline"
            /\ Publish(localCampaigns, localLeads)
            /\ initPc' = "done"
            /\ initPath' = "catch"
            /\ UNCHANGED <<cData, lData, mergedCampaigns, mergedLeads, rawCampaigns, rawLeads,
                           campaignsToRemove, leadRemapping, delStage>>
       ELSE LET c == IF cOut = "ok" THEN Data(cloudCampaigns) ELSE Null
                l == IF lOut = "ok" THEN Data(cloudLeads) ELSE Null
                mc == IF ~c.isNull THEN UnionCampaigns(localCampaigns, c.rows) ELSE localCampaigns
                ml == IF ~l.isNull THEN UnionLeads(localLeads, l.rows) ELSE localLeads
                col == Collapse(mc)
            IN /\ cData' = c
               /\ lData' = l
               /\ mergedCampaigns' = mc
               /\ mergedLeads' = ml
               /\ campaignsToRemove' = col.campaignsToRemove
               /\ leadRemapping' = col.leadRemapping
               /\ IF Len(col.campaignsToRemove) > 0
                  THEN /\ rawCampaigns' = MapValues(col.nicheMap)
                       /\ rawLeads' = RemapLeads(col.leadRemapping, ml)
                       /\ delStage' = [k \in DOMAIN col.campaignsToRemove |-> "campaign"]
                       /\ initPc' = "cleanup"
                       /\ UNCHANGED <<initPath, campaigns, leads, cloudStatus,
                                      localCampaigns, localLeads>>
                  ELSE /\ rawCampaigns' = mc
                       /\ rawLeads' = ml
                       /\ delStage' = <<>>
                       /\ Publish(mc, UniqueLeads(ml))
                       /\ initPc' = "done"
                       /\ initPath' = "merged"
                       /\ UNCHANGED cloudStatus
    /\ UNCHANGED <<cloudCampaigns, cloudLeads, settledAtSave, writeFailures, sessionVars, pureVars>>

(* deleteCampaignFromCloud(id), line 35, for one of the calls of line 96 *)
InitDeleteCampaignRow(k, out) ==
    /\ initPc = "cleanup"
    /\ k \in DOMAIN delStage
    /\ delStage[k] = "campaign"
    /\ cloudCampaigns' = IF out = "ok" THEN CloudDeleteCampaignRow(cloudCampaigns, campaignsToRemove[k])
                         ELSE cloudCampaigns
    /\ delStage' = [delStage EXCEPT ![k] = IF out = "throw" THEN "done" ELSE "leads"]
    /\ WriteOutcome(out)
    /\ UNCHANGED <<savedC, savedL, cData, lData, mergedCampaigns, mergedLeads, rawCampaigns,
                   rawLeads, campaignsToRemove, leadRemapping, settledAtSave, initPc, initPath,
                   localCampaigns, localLeads, cloudLeads, appVars, sessionVars, pureVars>>

(* deleteCampaignFromCloud(id), line 36 *)
InitDeleteCampaignLeads(k, out) ==
    /\ initPc = "cleanup"
    /\ k \in DOMAIN delStage
    /\ delStage[k] = "leads"
    /\ cloudLeads' = IF out = "ok" THEN CloudDeleteLeadsOf(cloudLeads, campaignsToRemove[k])
                     ELSE cloudLeads
    /\ delStage' = [delStage EXCEPT ![k] = "done"]
    /\ WriteOutcome(out)
    /\ UNCHANGED <<savedC, savedL, cData, lData, mergedCampaigns, mergedLeads, rawCampaigns,
                   rawLeads, campaignsToRemove, leadRemapping, settledAtSave, initPc, initPath,
                   localCampaigns, localLeads, cloudCampaigns, appVars, sessionVars, pureVars>>

(* await Promise.all(...) of line 96 resumes when every call has settled *)
AllSettled(stage) == \A k \in DOMAIN stage : stage[k] = "done"

(* lines 97-102: saveLeadsToCloud(rawLeads), then the publication *)
InitSaveLeads(out) ==
    /\ initPc = "cleanup"
    /\ AllSettled(delStage)
    /\ settledAtSave' = Cardinality({k \in DOMAIN delStage : delStage[k] = "done"})
    /\ cloudLeads' = IF out = "ok" THEN CloudUpsertLeads(cloudLeads, rawLeads) ELSE cloudLeads
    /\ WriteOutcome(out)
    /\ Publish(rawCampaigns, UniqueLeads(rawLeads))
    /\ initPc' = "done"
    /\ initPath' = "merged"
    /\ UNCHANGED <<savedC, savedL, cData, lData, mergedCampaigns, mergedLeads, rawCampaigns,
                   rawLeads, campaignsToRemove, leadRemapping, delStage, cloudCampaigns,
                   cloudStatus, sessionVars, pureVars>>

-----------------------------------------------------------------------------
(* handleStartMining, lines 170-285 *)

(* What the form can hold when it is submitted: a niche, and the
   neighbourhoods toggled on (line 635 keeps them distinct). *)
NicheInputs == {<<"P", "!">>, <<"q">>}
NeighborhoodChoices == {<< <<"c">> >>, << <<"c">>, <<"d">> >>}

(* What searchBusinesses can come back with for one neighbourhood: a list of
   businesses, or an error once withRetry has given up. *)
SearchResults(neighborhood) ==
    SeqsUpTo({Business(n, neighborhood) : n \in BusinessesIn(neighborhood)}, MaxBatch)

(* Exists with the telephone clause left out *)
ExistsByKeyOnly(state, biz, target) ==
    \E i \in DOMAIN state : state[i].id = biz.id /\ state[i].campaignId = target

(* lines 232-236 *)
Exists(state, biz, target) ==
    LET bizPhone == normalize(biz.phone)
    IN \E i \in DOMAIN state :
           \/ state[i].id = biz.id /\ state[i].campaignId = target
           \/ bizPhone # <<>> /\ normalize(state[i].phone) = bizPhone

(* FoldStep that reports the lead as new and does not keep it *)
FoldStepForgets(acc, biz, target, now) ==
    IF ~Exists(acc.state, biz, target)
    THEN [acc EXCEPT !.new = @ + 1]
    ELSE [acc EXCEPT !.skipped = @ + 1]

(* lines 231-247, the body of the forEach *)
FoldStep(acc, biz, target, now) ==
    IF ~Exists(acc.state, biz, target)
    THEN LET leadData == Lead(biz.id, target, biz.phone, biz.status, now, biz.notes)
         IN [state |-> Append(acc.state, leadData),
             batchToSave |-> Append(acc.batchToSave, leadData),
             new |-> acc.new + 1,
             skipped |-> acc.skipped]
    ELSE [acc EXCEPT !.skipped = @ + 1]

(* lines 231-247, the forEach *)
RECURSIVE FoldBatch(_, _, _, _)
FoldBatch(acc, batch, target, now) ==
    IF batch = <<>> THEN acc
    ELSE FoldBatch(FoldStep(acc, Head(batch), target, now), Tail(batch), target, now)

(* f with the value v for run r *)
Upd(f, r, v) == [f EXCEPT ![r] = v]

(* String.prototype.includes, on a message written as a list of words *)
Includes(msg, word) == word \in Range(msg)

(* What searchBusinesses can reject with once withRetry has given up
   (services/gemini.ts lines 13-30 retry an error whose message includes
   '429' or whose status is 429, and rethrow the last one; line 100 throws
   API_KEY_MISSING). *)
SearchErrors ==
    { [message |-> <<"429", "Too", "Many", "Requests">>, status |-> 429],
      [message |-> <<"Resource", "exhausted">>, status |-> 429],
      [message |-> <<"API_KEY_MISSING">>, status |-> 0],
      [message |-> <<"Failed", "to", "fetch">>, status |-> 0] }

(* Halts for every error *)
HaltsAlways(err) == TRUE

(* lines 264-269: the two branches that break *)
Halts(err) == Includes(err.message, "429") \/ Includes(err.message, "API_KEY_MISSING")

(* lines 264-273: the message shown *)
MessageFor(err) ==
    IF Includes(err.message, "429") THEN "quota"
    ELSE IF Includes(err.message, "API_KEY_MISSING") THEN "apiKey"
    ELSE "unexpected"

(* StartMining that sees no campaign *)
FindCampaignNone(cs, niche) == {}

(* line 180: the positions of the campaigns find() tests true *)
FindCampaign(cs, niche) == {i \in DOMAIN cs : normalize(cs[i].niche) = normalize(niche)}

(* lines 172-199, up to the await of saveCampaignToCloud. The submit button
   is disabled while isMining (line 639). The handler keeps the leads and the
   errorMessage of the render it was made in (lines 204 and 281 read them
   later). *)
StartMining(niche, selectedNeighborhoods) ==
    /\ initPc = "done"
    /\ selectedLead = <<>>
    /\ ~isMining
    /\ gestures < MaxGestures
    /\ runs < MaxRuns
    /\ Len(niche) > 0 /\ Len(selectedNeighborhoods) > 0
    /\ gestures' = gestures + 1
    /\ runs' = runs + 1
    /\ clock' = clock + 1
    /\ errorMessage' = ""
    /\ LET r == runs + 1
           found == FindCampaign(campaigns, niche)
       IN /\ neighborhoods' = Upd(neighborhoods, r, selectedNeighborhoods)
          /\ closureLeads' = Upd(closureLeads, r, leads)
          /\ closureError' = Upd(closureError, r, errorMessage)
          /\ minePc' = Upd(minePc, r, "saveCampaign")
          /\ IF found = {}
             THEN LET newCampaign == Campaign(ToString(clock), MapSeq(niche, toUpperCase), clock)
                  IN /\ targetCampaignId' = Upd(targetCampaignId, r, newCampaign.id)
                     /\ campaigns' = <<newCampaign>> \o campaigns
                     /\ pendingCampaign' = Upd(pendingCampaign, r, <<newCampaign>>)
             ELSE LET existingCampaign == campaigns[CHOOSE i \in found : \A j \in found : i <= j]
                      updatedCampaign == [existingCampaign EXCEPT !.lastSyncAt = clock]
                  IN /\ targetCampaignId' = Upd(targetCampaignId, r, existingCampaign.id)
                     /\ campaigns' = [i \in DOMAIN campaigns |->
                                        IF campaigns[i].id = existingCampaign.id
                                        THEN updatedCampaign ELSE campaigns[i]]
                     /\ pendingCampaign' = Upd(pendingCampaign, r, <<updatedCampaign>>)
    /\ leads' = leads
    /\ Persist
    /\ UNCHANGED <<pureVars, startupVars, cloudCampaigns, cloudLeads, writeFailures, cloudStatus,
                   activeCampaignId, selectedLead, isMining, miningProgress, activeTab, mineIdx,
                   currentLeadsState, batchToSave, totalNew, totalSkipped, processedBairros,
                   errors, navScheduled, fold, prevFold, pitchVars, folderVars>>

(* lines 193/198 resolve (saveCampaignToCloud swallows its error), then lines
   201-220: the first round of the loop begins *)
MineCampaignSaved(r, out) ==
    /\ minePc[r] = "saveCampaign"
    /\ WriteOutcome(out)
    /\ cloudCampaigns' = IF out = "ok"
                         THEN CloudUpsertCampaign(cloudCampaigns, pendingCampaign[r][1])
                         ELSE cloudCampaigns
    /\ isMining' = TRUE
    /\ cloudStatus' = "sincronizando"
    /\ currentLeadsState' = Upd(currentLeadsState, r, closureLeads[r])
    /\ totalNew' = Upd(totalNew, r, 0)
    /\ totalSkipped' = Upd(totalSkipped, r, 0)
    /\ mineIdx' = Upd(mineIdx, r, 1)
    /\ miningProgress' = <<[current |-> 1, completed |-> <<>>]>>
    /\ minePc' = Upd(minePc, r, "search")
    /\ UNCHANGED <<pureVars, startupVars, localCampaigns, localLeads, cloudLeads, campaigns, leads,
                   clock, gestures, runs, uiVars, activeTab, targetCampaignId, pendingCampaign,
                   closureLeads, closureError, neighborhoods, batchToSave, processedBairros,
                   errors, navScheduled, fold, prevFold, pitchVars, folderVars>>

(* The loop without the finally block: the run ends and resets nothing *)
MineAdvanceNoFinally(r, halt, processed, new) ==
    /\ processedBairros' = Upd(processedBairros, r, processed)
    /\ IF halt \/ mineIdx[r] >= Len(neighborhoods[r])
       THEN /\ minePc' = Upd(minePc, r, "done")
            /\ UNCHANGED <<mineIdx, isMining, miningProgress, cloudStatus, navScheduled>>
       ELSE /\ mineIdx' = Upd(mineIdx, r, mineIdx[r] + 1)
            /\ miningProgress' = <<[current |-> mineIdx[r] + 1, completed |-> processed]>>
            /\ minePc' = Upd(minePc, r, "search")
            /\ UNCHANGED <<isMining, cloudStatus, navScheduled>>

(* The loop goes to its next round (lines 213-220), or ends: by break or
   after the last neighbourhood, through the finally of lines 277-284.
   processed is processedBairros and new is totalNew as the round leaves
   them. *)
MineAdvance(r, halt, processed, new) ==
    /\ processedBairros' = Upd(processedBairros, r, processed)
    /\ IF halt \/ mineIdx[r] >= Len(neighborhoods[r])
       THEN /\ isMining' = FALSE
            /\ miningProgress' = <<>>
            /\ cloudStatus' = "online"
            /\ navScheduled' = Upd(navScheduled, r, closureError[r] = "" /\ new > 0)
            /\ minePc' = Upd(minePc, r, "done")
            /\ UNCHANGED mineIdx
       ELSE /\ mineIdx' = Upd(mineIdx, r, mineIdx[r] + 1)
            /\ miningProgress' = <<[current |-> mineIdx[r] + 1, completed |-> processed]>>
            /\ minePc' = Upd(minePc, r, "search")
            /\ UNCHANGED <<isMining, cloudStatus, navScheduled>>

(* lines 226-256: the search resolves and its businesses are folded *)
MineSearchResult(r, businesses) ==
    /\ minePc[r] = "search"
    /\ LET acc == FoldBatch([state |-> currentLeadsState[r], batchToSave |-> <<>>,
                             new |-> 0, skipped |-> 0],
                            businesses, targetCampaignId[r], clock)
       IN /\ currentLeadsState' = Upd(currentLeadsState, r, acc.state)
          /\ batchToSave' = Upd(batchToSave, r, acc.batchToSave)
          /\ totalNew' = Upd(totalNew, r, totalNew[r] + acc.new)
          /\ totalSkipped' = Upd(totalSkipped, r, totalSkipped[r] + acc.skipped)
          /\ fold' = <<[pre |-> currentLeadsState[r], batch |-> businesses,
                        target |-> targetCampaignId[r], post |-> acc.state,
                        new |-> acc.new, skipped |-> acc.skipped]>>
          /\ prevFold' = fold
          /\ IF Len(acc.batchToSave) > 0
             THEN /\ minePc' = Upd(minePc, r, "saveLeads")
                  /\ UNCHANGED <<mineIdx, isMining, miningProgress, cloudStatus,
                                 processedBairros, navScheduled>>
             ELSE MineAdvance(r, FALSE,
                              Append(processedBairros[r], neighborhoods[r][mineIdx[r]]),
                              totalNew[r] + acc.new)
    /\ clock' = clock + 1
    /\ UNCHANGED <<pureVars, startupVars, storeVars, campaigns, leads, gestures, runs, uiVars, activeTab,
                   targetCampaignId, pendingCampaign, closureLeads, closureError, neighborhoods,
                   errors, pitchVars, folderVars>>

(* A catch that gives up what the run has folded so far *)
MineSearchErrorRollsBack(r, err) ==
    /\ minePc[r] = "search"
    /\ errorMessage' = MessageFor(err)
    /\ errors' = Upd(errors, r, Append(errors[r], [at |-> mineIdx[r], err |-> err,
                                                   message |-> MessageFor(err)]))
    /\ MineAdvance(r, Halts(err), processedBairros[r], totalNew[r])
    /\ currentLeadsState' = Upd(currentLeadsState, r, closureLeads[r])
    /\ leads' = closureLeads[r]
    /\ UNCHANGED <<pureVars, startupVars, storeVars, campaigns, clock, gestures, runs,
                   activeCampaignId, selectedLead, activeTab, targetCampaignId, pendingCampaign,
                   closureLeads, closureError, neighborhoods, batchToSave,
                   totalNew, totalSkipped, fold, prevFold, pitchVars, folderVars>>

(* lines 262-274: the search rejects with err *)
MineSearchError(r, err) ==
    /\ minePc[r] = "search"
    /\ errorMessage' = MessageFor(err)
    /\ errors' = Upd(errors, r, Append(errors[r], [at |-> mineIdx[r], err |-> err,
                                                   message |-> MessageFor(err)]))
    /\ MineAdvance(r, Halts(err), processedBairros[r], totalNew[r])
    /\ UNCHANGED <<pureVars, startupVars, storeVars, campaigns, leads, clock, gestures, runs,
                   activeCampaignId, selectedLead, activeTab, targetCampaignId, pendingCampaign,
                   closureLeads, closureError, neighborhoods, currentLeadsState, batchToSave,
                   totalNew, totalSkipped, fold, prevFold, pitchVars, folderVars>>

(* saveLeadsToCloud letting its error through: line 258 is skipped *)
MineLeadsSavedRethrows(r, out) ==
    /\ minePc[r] = "saveLeads"
    /\ WriteOutcome(out)
    /\ cloudLeads' = IF out = "ok" THEN CloudUpsertLeads(cloudLeads, batchToSave[r])
                     ELSE cloudLeads
    /\ leads' = IF out = "ok" THEN currentLeadsState[r] ELSE leads
    /\ campaigns' = campaigns
    /\ Persist
    /\ MineAdvance(r, FALSE, Append(processedBairros[r], neighborhoods[r][mineIdx[r]]),
                   totalNew[r])
    /\ UNCHANGED <<pureVars, startupVars, cloudCampaigns, clock, gestures, runs, uiVars, activeTab,
                   targetCampaignId, pendingCampaign, closureLeads, closureError, neighborhoods,
                   currentLeadsState, batchToSave, totalNew, totalSkipped, errors, fold,
                   prevFold, pitchVars, folderVars>>

(* line 257 resolves (saveLeadsToCloud swallows its error), then lines 258-261 *)
MineLeadsSaved(r, out) ==
    /\ minePc[r] = "saveLeads"
    /\ WriteOutcome(out)
    /\ cloudLeads' = IF out = "ok" THEN CloudUpsertLeads(cloudLeads, batchToSave[r])
                     ELSE cloudLeads
    /\ leads' = currentLeadsState[r]
    /\ campaigns' = campaigns
    /\ Persist
    /\ MineAdvance(r, FALSE, Append(processedBairros[r], neighborhoods[r][mineIdx[r]]),
                   totalNew[r])
    /\ UNCHANGED <<pureVars, startupVars, cloudCampaigns, clock, gestures, runs, uiVars, activeTab,
                   targetCampaignId, pendingCampaign, closureLeads, closureError, neighborhoods,
                   currentLeadsState, batchToSave, totalNew, totalSkipped, errors, fold,
                   prevFold, pitchVars, folderVars>>

(* line 282: the timer set by run r fires *)
NavigateToLeads(r) ==
    /\ navScheduled[r]
    /\ activeTab # "leads"
    /\ activeTab' = "leads"
    /\ UNCHANGED <<pureVars, startupVars, storeVars, appVars, clock, gestures, runs, uiVars, isMining,
                   miningProgress, runVars, fold, prevFold, pitchVars, folderVars>>

-----------------------------------------------------------------------------
(* The lead panel *)

Statuses == {"new", "contacted", "interested", "closed", "rejected"}

(* lines 150-160: the leads of the list of the open folder, those of the
   campaigns that have the niche of the active campaign (every lead when that
   campaign is not there), whatever the status filter *)
filteredLeads ==
    LET active == {i \in DOMAIN campaigns : campaigns[i].id = activeCampaignId}
    IN IF active = {} THEN leads
       ELSE LET targetNiche == campaigns[CHOOSE i \in active : \A j \in active : i <= j].niche
                relatedCampaignIds == {campaigns[i].id :
                                          i \in {j \in DOMAIN campaigns :
                                                    campaigns[j].niche = targetNiche}}
            IN SelectSeq(leads, LAMBDA l : l.campaignId \in relatedCampaignIds)

(* line 839: a card of the list of the open folder (line 721) is clicked; the
   panel of line 976 covers the whole window once a lead is selected.
   Opening and closing the panel starts no handler. *)
SelectLead(i) ==
    /\ initPc = "done"
    /\ activeCampaignId # ""
    /\ selectedLead = <<>>
    /\ i \in DOMAIN leads
    /\ leads[i] \in Range(filteredLeads)
    /\ UNCHANGED <<gestures, runs>>
    /\ selectedLead' = <<leads[i]>>
    /\ UNCHANGED <<pureVars, startupVars, storeVars, appVars, clock, activeCampaignId, errorMessage,
                   mineVars, pitchVars, folderVars>>

(* line 978: the panel is closed *)
CloseLead ==
    /\ selectedLead # <<>>
    /\ selectedLead' = <<>>
    /\ UNCHANGED <<pureVars, startupVars, storeVars, appVars, clock, gestures, runs,
                   activeCampaignId, errorMessage, mineVars, pitchVars, folderVars>>

(* prev.map(l => l.id === lead.id ? updatedLead : l), lines 331 and 1013 *)
ReplaceById(prev, id, updatedLead) ==
    [i \in DOMAIN prev |-> IF prev[i].id = id THEN updatedLead ELSE prev[i]]

(* lines 1010-1015; the request of line 1014 is sent at once *)
StatusChange(status, out) ==
    /\ selectedLead # <<>>
    /\ gestures < MaxGestures
    /\ gestures' = gestures + 1
    /\ UNCHANGED runs
    /\ LET updatedLead == [selectedLead[1] EXCEPT !.status = status]
       IN /\ selectedLead' = <<updatedLead>>
          /\ leads' = ReplaceById(leads, selectedLead[1].id, updatedLead)
          /\ cloudLeads' = IF out = "ok" THEN CloudUpsertLeads(cloudLeads, <<updatedLead>>)
                           ELSE cloudLeads
    /\ WriteOutcome(out)
    /\ campaigns' = campaigns
    /\ Persist
    /\ UNCHANGED <<pureVars, startupVars, cloudCampaigns, cloudStatus, clock, activeCampaignId,
                   errorMessage, mineVars, pitchVars, folderVars>>

(* lines 1024-1028. With no lead of that id in the list, find() gives
   undefined and the upsert of [undefined] is refused by the store. *)
Contact(out) ==
    /\ selectedLead # <<>>
    /\ gestures < MaxGestures
    /\ gestures' = gestures + 1
    /\ UNCHANGED runs
    /\ LET up == [i \in DOMAIN leads |->
                     IF leads[i].id = selectedLead[1].id
                     THEN [leads[i] EXCEPT !.status = "contacted"] ELSE leads[i]]
           hit == {i \in DOMAIN up : up[i].id = selectedLead[1].id}
       IN /\ leads' = up
          /\ IF hit = {}
             THEN /\ out = "error"
                  /\ UNCHANGED <<cloudLeads, writeFailures, contacted>>
             ELSE /\ WriteOutcome(out)
                  /\ contacted' = LET i == CHOOSE i \in hit : \A j \in hit : i <= j
                                  IN <<[before |-> leads[i].status, after |-> up[i].status]>>
                  /\ cloudLeads' =
                       IF out = "ok"
                       THEN CloudUpsertLeads(cloudLeads,
                                <<up[CHOOSE i \in hit : \A j \in hit : i <= j]>>)
                       ELSE cloudLeads
    /\ campaigns' = campaigns
    /\ Persist
    /\ UNCHANGED <<pureVars, startupVars, cloudCampaigns, cloudStatus, clock, uiVars, mineVars,
                   pitchPc, pitchLead, folderVars>>

PitchNotes == [loading |-> "loading", pitch |-> "pitch", error |-> "error"]

(* lines 316-326, up to the await of the generator *)
PitchStart ==
    /\ selectedLead # <<>>
    /\ pitchPc = "idle"
    /\ gestures < MaxGestures
    /\ gestures' = gestures + 1
    /\ UNCHANGED runs
    /\ pitchLead' = selectedLead
    /\ selectedLead' = <<[selectedLead[1] EXCEPT !.notes = PitchNotes.loading]>>
    /\ pitchPc' = "generate"
    /\ UNCHANGED <<pureVars, startupVars, storeVars, appVars, clock, activeCampaignId, errorMessage,
                   mineVars, contacted, folderVars>>

(* lines 329-332: the generator resolves; the request of line 332 is sent at
   once *)
PitchDone(out) ==
    /\ pitchPc = "generate"
    /\ LET updatedLead == [pitchLead[1] EXCEPT !.notes = PitchNotes.pitch]
       IN /\ selectedLead' = <<updatedLead>>
          /\ leads' = ReplaceById(leads, pitchLead[1].id, updatedLead)
          /\ cloudLeads' = IF out = "ok" THEN CloudUpsertLeads(cloudLeads, <<updatedLead>>)
                           ELSE cloudLeads
    /\ WriteOutcome(out)
    /\ campaigns' = campaigns
    /\ Persist
    /\ pitchPc' = "idle"
    /\ UNCHANGED <<pureVars, startupVars, cloudCampaigns, cloudStatus, clock, gestures, runs,
                   activeCampaignId, errorMessage, mineVars, pitchLead, contacted, folderVars>>

(* lines 333-340: the generator rejects *)
PitchFailed ==
    /\ pitchPc = "generate"
    /\ selectedLead' = <<[pitchLead[1] EXCEPT !.notes = PitchNotes.error]>>
    /\ pitchPc' = "idle"
    /\ UNCHANGED <<pureVars, startupVars, storeVars, appVars, clock, gestures, runs, activeCampaignId,
                   errorMessage, mineVars, pitchLead, contacted, folderVars>>

(* A mining run in a session that has the other handlers at hand: one form,
   and a search that finds at most one business. *)
(* The awaited calls of run r: saveCampaignToCloud, searchBusinesses (with
   the 2 s pause before it) and saveLeadsToCloud each resolve or reject; a
   search here returns at most one business *)
RunStep(r) ==
    \/ \E out \in Outcomes : MineCampaignSaved(r, out)
    \/ /\ minePc[r] = "search"
       /\ \E businesses \in {b \in SearchResults(neighborhoods[r][mineIdx[r]]) : Len(b) <= 1} :
             MineSearchResult(r, businesses)
    \/ \E err \in SearchErrors : MineSearchError(r, err)
    \/ \E out \in Outcomes : MineLeadsSaved(r, out)

SessionMining ==
    \/ StartMining(<<"q">>, << <<"d">> >>)
    \/ \E r \in Runs : RunStep(r)
    \/ \E r \in Runs : NavigateToLeads(r)

(* No invocation of handleStartMining is between its first and last line *)
NoRunInFlight == \A r \in Runs : minePc[r] \in {"idle", "done"}

(* The mining form, submitted only while no run is in flight *)
Mining ==
    \/ /\ NoRunInFlight
       /\ \E niche \in NicheInputs, nbs \in NeighborhoodChoices : StartMining(niche, nbs)
    \/ \E r \in Runs, out \in Outcomes : MineCampaignSaved(r, out)
    \/ \E r \in Runs :
          /\ minePc[r] = "search"
          /\ \E businesses \in SearchResults(neighborhoods[r][mineIdx[r]]) :
                MineSearchResult(r, businesses)
    \/ \E r \in Runs, err \in SearchErrors : MineSearchError(r, err)
    \/ \E r \in Runs, out \in Outcomes : MineLeadsSaved(r, out)
    \/ \E r \in Runs : NavigateToLeads(r)

LeadPanel ==
    \/ \E i \in DOMAIN leads : SelectLead(i)
    \/ CloseLead
    \/ \E status \in Statuses, out \in Outcomes : StatusChange(status, out)
    \/ \E out \in Outcomes : Contact(out)
    \/ PitchStart
    \/ \E out \in Outcomes : PitchDone(out)
    \/ PitchFailed

-----------------------------------------------------------------------------
(* The folders: lines 755 and 787, handleDeleteCampaign, handleCleanDuplicates *)

(* line 755, with the first campaign of a folder, and line 787, with null *)
SetActiveCampaign(id) ==
    /\ initPc = "done"
    /\ selectedLead = <<>>
    /\ gestures < MaxGestures
    /\ id # activeCampaignId
    /\ \/ id = ""
       \/ \E i \in DOMAIN campaigns :
             /\ campaigns[i].id = id
             /\ \A j \in 1..(i - 1) : campaigns[j].niche # campaigns[i].niche
    /\ gestures' = gestures + 1
    /\ UNCHANGED runs
    /\ activeCampaignId' = id
    /\ UNCHANGED <<pureVars, startupVars, storeVars, appVars, clock, selectedLead, errorMessage,
                   mineVars, pitchVars, folderVars>>

(* lines 345-353, up to the first await; the user confirms. The button of
   lines 767-771 is rendered with the folder grid, while no folder is open
   (line 721). *)
DeleteStart(i) ==
    /\ initPc = "done"
    /\ delPc = "idle"
    /\ activeCampaignId = ""
    /\ selectedLead = <<>>
    /\ gestures < MaxGestures
    /\ i \in DOMAIN campaigns
    /\ gestures' = gestures + 1
    /\ UNCHANGED runs
    /\ cloudStatus' = "sincronizando"
    /\ idsToDelete' = IdSeq(SelectSeq(campaigns,
                          LAMBDA c : normalize(c.niche) = normalize(campaigns[i].niche)))
    /\ delIdx' = 1
    /\ delActive' = activeCampaignId
    /\ delNiche' = normalize(campaigns[i].niche)
    /\ delFailed' = FALSE
    /\ delPc' = "row"
    /\ UNCHANGED <<pureVars, startupVars, storeVars, campaigns, leads, clock, uiVars, mineVars,
                   pitchVars, cleanVars, notice, destroyed>>

(* lines 359-369, after the last deleteCampaignFromCloud has resolved *)
DeleteFinish ==
    /\ campaigns' = SelectSeq(campaigns, LAMBDA c : c.id \notin Range(idsToDelete))
    /\ leads' = SelectSeq(leads, LAMBDA l : l.campaignId \notin Range(idsToDelete))
    /\ Persist
    /\ activeCampaignId' = IF delActive # "" /\ delActive \in Range(idsToDelete)
                           THEN "" ELSE activeCampaignId
    /\ notice' = "deleted"
    /\ destroyed' = [destroyed EXCEPT !.campaigns = @ \cup Range(idsToDelete)]
    /\ cloudStatus' = "online"
    /\ delPc' = "idle"
    /\ delFailed' = FALSE
    /\ UNCHANGED delIdx

(* deleteCampaignFromCloud has resolved, with failed telling whether one of
   its requests failed: the loop of line 355 goes on, or ends *)
DeleteAdvance(failed) ==
    IF delIdx < Len(idsToDelete)
    THEN /\ delIdx' = delIdx + 1
         /\ delPc' = "row"
         /\ delFailed' = (delFailed \/ failed)
         /\ UNCHANGED <<campaigns, leads, localCampaigns, localLeads, activeCampaignId,
                        cloudStatus, notice, destroyed>>
    ELSE DeleteFinish

(* services/supabase.ts line 35: a throw is caught at line 37 and the request
   of line 36 is not sent *)
DeleteCampaignRow(out) ==
    /\ delPc = "row"
    /\ WriteOutcome(out)
    /\ cloudCampaigns' = IF out = "ok"
                         THEN CloudDeleteCampaignRow(cloudCampaigns, idsToDelete[delIdx])
                         ELSE cloudCampaigns
    /\ IF out = "throw"
       THEN DeleteAdvance(TRUE)
       ELSE /\ delPc' = "leads"
            /\ delFailed' = (delFailed \/ out # "ok")
            /\ UNCHANGED <<campaigns, leads, localCampaigns, localLeads, activeCampaignId,
                           cloudStatus, delIdx, notice, destroyed>>
    /\ UNCHANGED <<pureVars, startupVars, cloudLeads, clock, gestures, runs, selectedLead, errorMessage,
                   mineVars, pitchVars, idsToDelete, delActive, delNiche, cleanVars>>

(* services/supabase.ts line 36 *)
DeleteCampaignLeads(out) ==
    /\ delPc = "leads"
    /\ WriteOutcome(out)
    /\ cloudLeads' = IF out = "ok" THEN CloudDeleteLeadsOf(cloudLeads, idsToDelete[delIdx])
                     ELSE cloudLeads
    /\ DeleteAdvance(out # "ok")
    /\ UNCHANGED <<pureVars, startupVars, cloudCampaigns, clock, gestures, runs, selectedLead, errorMessage,
                   mineVars, pitchVars, idsToDelete, delActive, delNiche, cleanVars>>

(* The list left in the order it has *)
SortNone(ls) == ls

(* Array.prototype.sort with the comparator of lines 386-388: stable, latest
   lastSeenAt first *)
RECURSIVE SortByLastSeen(_)
SortByLastSeen(ls) ==
    IF ls = <<>> THEN <<>>
    ELSE LET top == CHOOSE i \in DOMAIN ls :
                       /\ \A j \in DOMAIN ls : ls[j].lastSeenAt <= ls[i].lastSeenAt
                       /\ \A j \in 1..(i - 1) : ls[j].lastSeenAt < ls[i].lastSeenAt
         IN <<ls[top]>> \o SortByLastSeen(SubSeq(ls, 1, top - 1) \o SubSeq(ls, top + 1, Len(ls)))

(* lines 379-384 *)
TargetLeads ==
    IF activeCampaignId # ""
    THEN LET act == {i \in DOMAIN campaigns : campaigns[i].id = activeCampaignId}
         IN IF act = {} THEN <<>>
            ELSE LET niche == campaigns[CHOOSE i \in act : \A j \in act : i <= j].niche
                     ids == {campaigns[i].id : i \in {j \in DOMAIN campaigns :
                                                        campaigns[j].niche = niche}}
                 IN IF niche = <<>> THEN <<>>
                    ELSE SelectSeq(leads, LAMBDA l : l.campaignId \in ids)
    ELSE leads

(* lines 390-398: acc is [phones, dupes] *)
RECURSIVE FindDupes(_, _)
FindDupes(acc, ls) ==
    IF ls = <<>> THEN acc.dupes
    ELSE LET phone == normalize(Head(ls).phone)
         IN IF phone # <<>> /\ phone \in acc.phones
            THEN FindDupes([acc EXCEPT !.dupes = Append(@, Head(ls))], Tail(ls))
            ELSE FindDupes([acc EXCEPT !.phones = @ \cup (IF phone # <<>> THEN {phone} ELSE {})],
                           Tail(ls))

(* lines 375-406, up to the first await; with no duplicate the handler
   returns at line 402; confirmed is the answer to confirm() at line 405. The
   button of line 807 is rendered in the view of an open folder (line 721). *)
CleanStart(confirmed) ==
    /\ initPc = "done"
    /\ cleanPc = "idle"
    /\ activeCampaignId # ""
    /\ selectedLead = <<>>
    /\ gestures < MaxGestures
    /\ gestures' = gestures + 1
    /\ UNCHANGED runs
    /\ LET found == FindDupes([phones |-> {}, dupes |-> <<>>], SortByLastSeen(TargetLeads))
       IN /\ scan' = <<[scope |-> TargetLeads, dupes |-> found,
                        confirmed |-> (Len(found) > 0 /\ confirmed)]>>
          /\ IF Len(found) = 0
             THEN /\ confirmed
                  /\ notice' = "noDuplicates"
                     /\ UNCHANGED destroyed
                  /\ UNCHANGED <<cloudStatus, cleanPc, dupesFound, cleanIdx, cleanFailed>>
             ELSE IF ~confirmed
             THEN UNCHANGED <<cloudStatus, cleanPc, dupesFound, cleanIdx, cleanFailed, notice, destroyed>>
             ELSE /\ cloudStatus' = "sincronizando"
                  /\ dupesFound' = found
                  /\ cleanIdx' = 1
                  /\ cleanFailed' = FALSE
                  /\ cleanPc' = "delete"
                  /\ UNCHANGED <<notice, destroyed>>
    /\ UNCHANGED <<pureVars, startupVars, storeVars, campaigns, leads, clock, uiVars, mineVars,
                   pitchVars, delVars>>

(* line 409 resolves (deleteLeadFromCloud swallows a throw); after the last
   one, lines 413-420 *)
CleanDeleteLead(out) ==
    /\ cleanPc = "delete"
    /\ WriteOutcome(out)
    /\ cloudLeads' = IF out = "ok"
                     THEN CloudDeleteLead(cloudLeads, dupesFound[cleanIdx].id,
                                          dupesFound[cleanIdx].campaignId)
                     ELSE cloudLeads
    /\ IF cleanIdx < Len(dupesFound)
       THEN /\ cleanIdx' = cleanIdx + 1
            /\ cleanFailed' = (cleanFailed \/ out # "ok")
            /\ UNCHANGED <<leads, campaigns, localCampaigns, localLeads, cloudStatus, cleanPc,
                           notice, destroyed>>
       ELSE /\ leads' = SelectSeq(leads,
                          LAMBDA l : LeadKey(l) \notin {LeadKey(dupesFound[k]) :
                                                          k \in DOMAIN dupesFound})
            /\ campaigns' = campaigns
            /\ Persist
            /\ notice' = "cleaned"
            /\ destroyed' = [destroyed EXCEPT
                                !.leads = @ \cup {LeadKey(dupesFound[k]) : k \in DOMAIN dupesFound}]
            /\ cloudStatus' = "online"
            /\ cleanPc' = "idle"
            /\ cleanFailed' = FALSE
            /\ UNCHANGED cleanIdx
    /\ UNCHANGED <<pureVars, startupVars, cloudCampaigns, clock, gestures, runs, uiVars, mineVars, pitchVars,
                   delVars, dupesFound, scan>>

Folders ==
    \/ \E id \in {""} \cup Ids(campaigns) : SetActiveCampaign(id)
    \/ \E i \in DOMAIN campaigns : DeleteStart(i)
    \/ \E out \in Outcomes : DeleteCampaignRow(out)
    \/ \E out \in Outcomes : DeleteCampaignLeads(out)
    \/ \E confirmed \in BOOLEAN : CleanStart(confirmed)
    \/ \E out \in Outcomes : CleanDeleteLead(out)

Startup ==
    \/ \E cOut, lOut \in Outcomes : InitLoad(cOut, lOut)
    \/ \E k \in DOMAIN delStage, out \in Outcomes : InitDeleteCampaignRow(k, out)
    \/ \E k \in DOMAIN delStage, out \in Outcomes : InitDeleteCampaignLeads(k, out)
    \/ \E out \in Outcomes : InitSaveLeads(out)

Next == Startup

Spec == Init /\ [][Next]_vars

(* A session: the startup over one of a few installations, then the handlers
   of the user interface, once init has published. *)
SessionReplicas ==
    { [lc |-> <<>>, ll |-> <<>>, cc |-> <<>>, cl |-> <<>>],
      [lc |-> <<Campaign("1", <<"p">>, 0), Campaign("2", <<"q">>, 0)>>,
       ll |-> <<Lead("b_d_", "1", <<>>, "new", 1, ""), Lead("b_d_", "2", <<>>, "new", 2, "")>>,
       cc |-> <<>>, cl |-> <<>>],
      [lc |-> <<Campaign("1", <<"p">>, 0), Campaign("2", <<"P", "!">>, 0)>>,
       ll |-> <<Lead("a_c_99990001", "1", PhoneOf(<<"a">>), "new", 1, ""),
                Lead("d_c_99990001", "2", PhoneOf(<<"d">>), "new", 2, "")>>,
       cc |-> <<Campaign("2", <<"P", "!">>, 0)>>,
       cl |-> <<Lead("a_c_99990001", "2", PhoneOf(<<"a">>), "contacted", 2, "")>>] }

InitSession ==
    /\ InitStartup
    /\ \E r \in SessionReplicas :
          /\ localCampaigns = r.lc
          /\ localLeads = r.ll
          /\ cloudCampaigns = r.cc
          /\ cloudLeads = r.cl

NextSession == Startup \/ SessionMining \/ LeadPanel \/ Folders

SpecSession == InitSession /\ [][NextSession]_vars

(* The page is loaded again: every React state and every local of a handler
   starts over, the two localStorage slots and the remote tables are what the
   page before left, and init runs again *)
Restart ==
    /\ initPc = "done"
    /\ delPc = "idle"
    /\ cleanPc = "idle"
    /\ gestures < MaxGestures
    /\ gestures' = gestures + 1
    /\ initPc' = "load"
    /\ initPath' = "none"
    /\ campaigns' = <<>>
    /\ leads' = <<>>
    /\ cloudStatus' = "online"
    /\ savedC' = <<>>
    /\ savedL' = <<>>
    /\ cData' = Null
    /\ lData' = Null
    /\ mergedCampaigns' = <<>>
    /\ mergedLeads' = <<>>
    /\ rawCampaigns' = <<>>
    /\ rawLeads' = <<>>
    /\ campaignsToRemove' = <<>>
    /\ leadRemapping' = <<>>
    /\ delStage' = <<>>
    /\ settledAtSave' = -1
    /\ activeCampaignId' = ""
    /\ selectedLead' = <<>>
    /\ isMining' = FALSE
    /\ errorMessage' = ""
    /\ miningProgress' = <<>>
    /\ activeTab' = "home"
    /\ minePc' = [r \in Runs |-> "idle"]
    /\ targetCampaignId' = [r \in Runs |-> ""]
    /\ pendingCampaign' = [r \in Runs |-> <<>>]
    /\ closureLeads' = [r \in Runs |-> <<>>]
    /\ closureError' = [r \in Runs |-> ""]
    /\ neighborhoods' = [r \in Runs |-> <<>>]
    /\ mineIdx' = [r \in Runs |-> 0]
    /\ currentLeadsState' = [r \in Runs |-> <<>>]
    /\ batchToSave' = [r \in Runs |-> <<>>]
    /\ totalNew' = [r \in Runs |-> 0]
    /\ totalSkipped' = [r \in Runs |-> 0]
    /\ processedBairros' = [r \in Runs |-> <<>>]
    /\ errors' = [r \in Runs |-> <<>>]
    /\ navScheduled' = [r \in Runs |-> FALSE]
    /\ fold' = <<>>
    /\ prevFold' = <<>>
    /\ pitchPc' = "idle"
    /\ pitchLead' = <<>>
    /\ contacted' = <<>>
    /\ delPc' = "idle"
    /\ idsToDelete' = <<>>
    /\ delIdx' = 0
    /\ delActive' = ""
    /\ delNiche' = <<>>
    /\ delFailed' = FALSE
    /\ cleanPc' = "idle"
    /\ dupesFound' = <<>>
    /\ cleanIdx' = 0
    /\ cleanFailed' = FALSE
    /\ scan' = <<>>
    /\ notice' = ""
    /\ UNCHANGED destroyed
    /\ UNCHANGED <<storeVars, clock, runs, pureVars>>

NextRestart == Startup \/ Folders \/ Restart

SpecRestart == InitSession /\ [][NextRestart]_vars

(* Mining runs, one after the other, in an application whose startup found
   the two replicas in agreement and nothing to collapse: a new installation,
   one with the phone-less lead b in two folders, one with lead a. *)
MiningInstallations ==
    { [c |-> <<>>, l |-> <<>>],
      [c |-> <<Campaign("1", <<"p">>, 0), Campaign("2", <<"q">>, 0)>>,
       l |-> <<Lead("b_d_", "1", <<>>, "new", 1, ""), Lead("b_d_", "2", <<>>, "new", 2, "")>>],
      [c |-> <<Campaign("1", <<"P", "!">>, 0)>>,
       l |-> <<Lead("a_c_99990001", "1", PhoneOf(<<"a">>), "contacted", 1, "")>>] }

(* The App once init has published one of the installations *)
Installed(installations) ==
    /\ \E r \in installations :
          /\ localCampaigns = r.c /\ cloudCampaigns = r.c /\ campaigns = r.c
          /\ localLeads = r.l /\ cloudLeads = r.l /\ leads = r.l
    /\ initPc = "done"
    /\ initPath = "merged"
    /\ cloudStatus = "online"
    /\ savedC = localCampaigns
    /\ savedL = localLeads
    /\ cData = Data(cloudCampaigns)
    /\ lData = Data(cloudLeads)
    /\ mergedCampaigns = campaigns
    /\ mergedLeads = leads
    /\ rawCampaigns = campaigns
    /\ rawLeads = leads
    /\ campaignsToRemove = <<>>
    /\ leadRemapping = <<>>
    /\ delStage = <<>>
    /\ settledAtSave = -1
    /\ writeFailures = 0
    /\ InitHandlers

InitMining == Installed(MiningInstallations) /\ InitPure

NextMining == Mining

SpecMining == InitMining /\ [][NextMining]_vars

(* Mining runs one after the other, over either choice of neighbourhoods *)
MiningRuns ==
    \/ /\ NoRunInFlight
       /\ \E nbs \in NeighborhoodChoices : StartMining(<<"q">>, nbs)
    \/ \E r \in Runs : RunStep(r)
    \/ \E r \in Runs : NavigateToLeads(r)

NextRuns == MiningRuns

(* Every awaited call of every run settles *)
SpecRuns == InitMining /\ [][NextRuns]_vars /\ \A r \in Runs : WF_vars(RunStep(r))

(* Duplicate cleanup over the lead lists an installation can hold: up to MaxScan
   leads of folder 'p' (the last possibly of folder 'q'), each with no phone, one of
   two phones (one of them stored in two spellings) and a lastSeenAt that is
   absent (0, as `l.lastSeenAt || 0` reads it) or one of two dates *)
ScanPhones == {<<>>, <<"1", "9">>, <<"1", "-", "9">>, <<"2", "9">>}
ScanDates == {0, 1, 2}
ScanIds == [i \in 1..MaxScan |-> "x" \o ToString(i)]

ScanLeads ==
    UNION {{[i \in 1..n |-> Lead(ScanIds[i], IF i = MaxScan THEN last ELSE "1", phone[i], "new",
                                 date[i], "")] :
               phone \in [1..n -> ScanPhones], date \in [1..n -> ScanDates],
               last \in {"1", "2"}} : n \in 0..MaxScan}

ScanInstallations ==
    {[c |-> <<Campaign("1", <<"p">>, 0), Campaign("2", <<"q">>, 0)>>, l |-> ls] : ls \in ScanLeads}

InitScan == Installed(ScanInstallations) /\ InitPure

NextScan ==
    \/ \E id \in Ids(campaigns) : SetActiveCampaign(id)
    \/ \E confirmed \in BOOLEAN : CleanStart(confirmed)
    \/ \E out \in Outcomes : CleanDeleteLead(out)

SpecScan == InitScan /\ [][NextScan]_vars

-----------------------------------------------------------------------------
(* performExport, the vCard branch (lines 468-483) *)

(* l.phone.replace(/\D/g, '') *)
CleanPhone(phone) == SelectSeq(phone, IsDigit)

(* cleanPhone.startsWith('55') *)
StartsWith55(cleanPhone) ==
    Len(cleanPhone) >= 2 /\ cleanPhone[1] = "5" /\ cleanPhone[2] = "5"

(* line 472: '+' + cleanPhone, or '+55' + cleanPhone *)
FormattedPhone(phone) ==
    IF StartsWith55(CleanPhone(phone))
    THEN <<"+">> \o CleanPhone(phone)
    ELSE <<"+", "5", "5">> \o CleanPhone(phone)

(* performExport(scope, 'vcf', filter) over the leads the scope and the filter
   let through: one TEL value per lead; an empty list only raises an alert *)
performExport ==
    /\ initPc = "done"
    /\ Len(leads) > 0
    /\ vcardContent = <<>>
    /\ vcardContent' = [i \in DOMAIN leads |-> FormattedPhone(leads[i].phone)]
    /\ UNCHANGED <<startupVars, storeVars, appVars, sessionVars, normalized>>

(* The phones of the exported leads: a national number of area code 11, 21,
   51 or 55, with or without the ninth digit, alone or after the country code
   55, written in digits only or with the usual punctuation *)
AreaCodes == {<<"1", "1">>, <<"2", "1">>, <<"5", "1">>, <<"5", "5">>}
Subscribers ==
    {<<"9", "9", "9", "9", "0", "0", "0", "1">>, <<"2", "0", "0", "0", "5", "5", "1", "2">>,
     <<"5", "5", "5", "5", "1", "2", "1", "2">>}

Written(country, area, ninth, sub, punctuated) ==
    IF punctuated
    THEN (IF country = <<>> THEN <<>> ELSE <<"+">> \o country \o <<" ">>)
         \o <<"(">> \o area \o <<")", " ">> \o ninth \o SubSeq(sub, 1, 4) \o <<"-">>
         \o SubSeq(sub, 5, 8)
    ELSE country \o area \o ninth \o sub

ExportPhones ==
    {Written(country, area, ninth, sub, punctuated) :
        country \in {<<>>, <<"5", "5">>}, area \in AreaCodes, ninth \in {<<>>, <<"9">>},
        sub \in Subscribers, punctuated \in BOOLEAN}

ExportInstallations ==
    {[c |-> <<Campaign("1", <<"p">>, 0)>>,
      l |-> [i \in 1..n |-> Lead(ScanIds[i], "1", IF i = 1 THEN phone ELSE <<>>, "new", 1, "")]] :
        phone \in ExportPhones, n \in 1..MaxExport}

InitExport == Installed(ExportInstallations) /\ InitPure

NextExport == performExport

SpecExport == InitExport /\ [][NextExport]_vars

-----------------------------------------------------------------------------
(* normalize (line 37), applied to a text and then to its own result *)

TextChars == {"P", "q", "1", " ", "!"}

Texts == SeqsUpTo(TextChars, MaxText)

Normalize ==
    /\ Len(normalized) \in {1, 2}
    /\ normalized' = Append(normalized, normalize(normalized[Len(normalized)]))
    /\ UNCHANGED <<startupVars, storeVars, appVars, sessionVars, vcardContent>>

InitNormalize ==
    /\ Installed({[c |-> <<>>, l |-> <<>>]})
    /\ vcardContent = <<>>
    /\ normalized \in {<<text>> : text \in Texts}

NextNormalize == Normalize

SpecNormalize == InitNormalize /\ [][NextNormalize]_vars

-----------------------------------------------------------------------------
(* Startup merge: what is checked of it *)

MergeDone == initPath = "merged"
LoadSucceeded == ~cData.isNull /\ ~lData.isNull
Removed == Range(campaignsToRemove)

OnePerNiche(cs) ==
    \A i, j \in DOMAIN cs :
        normalize(cs[i].niche) = normalize(cs[j].niche) => cs[i].id = cs[j].id

(* The members of the merged list that share the normalized niche of its k-th member *)
Group(k) ==
    {i \in DOMAIN mergedCampaigns :
        normalize(mergedCampaigns[i].niche) = normalize(mergedCampaigns[k].niche)}
First(k) == CHOOSE i \in Group(k) : \A j \in Group(k) : i <= j
SurvivorOf(id) ==
    LET k == CHOOSE i \in DOMAIN mergedCampaigns : mergedCampaigns[i].id = id
    IN mergedCampaigns[First(k)]

(* C1: after a startup merge with a successful remote load, two published
   campaigns with the same normalized niche have the same id. *)
C1_CollapseIsQuotient == (MergeDone /\ LoadSucceeded) => OnePerNiche(campaigns)

C1_Witness ==
    /\ MergeDone /\ LoadSucceeded
    /\ Len(campaignsToRemove) > 0
    /\ Len(campaigns) >= 2
    /\ \E i, j \in DOMAIN mergedCampaigns :
          /\ mergedCampaigns[i].niche # mergedCampaigns[j].niche
          /\ normalize(mergedCampaigns[i].niche) = normalize(mergedCampaigns[j].niche)

(* C2: after the startup merge no published lead refers to a campaign the
   collapse removed, and every lead that did is published under the id of the
   surviving campaign of that niche. *)
C2_RemapComplete ==
    MergeDone =>
        /\ \A i \in DOMAIN leads : leads[i].campaignId \notin Removed
        /\ \A i \in DOMAIN mergedLeads :
              mergedLeads[i].campaignId \in Removed =>
                  \E j \in DOMAIN leads :
                      /\ leads[j].id = mergedLeads[i].id
                      /\ leads[j].campaignId = SurvivorOf(mergedLeads[i].campaignId).id

C2_Witness ==
    /\ MergeDone
    /\ \E i \in DOMAIN mergedLeads : mergedLeads[i].campaignId \in Removed
    /\ \E i \in DOMAIN mergedLeads : mergedLeads[i].campaignId \notin Removed

(* C3: after the startup merge no two published leads share (id, campaignId),
   also when they became equal only by the collapse of their campaigns. *)
C3_LeadsUnique == MergeDone => UniqueKeys(leads)

C3_Witness ==
    /\ MergeDone
    /\ UniqueKeys(mergedLeads)
    /\ ~UniqueKeys(rawLeads)
    /\ Len(leads) < Len(rawLeads)

(* C4: the merged list is the local campaigns in local order followed by the
   remote-only ones; of every group of equal normalized niche exactly the first
   member is published; two leads of one id in two members of a group end as
   exactly one lead, under the survivor's id. *)
C4_FirstSurvives ==
    MergeDone =>
        /\ ~cData.isNull =>
              IdSeq(mergedCampaigns) =
                  IdSeq(savedC) \o SelectSeq(IdSeq(cData.rows), LAMBDA id : id \notin Ids(savedC))
        /\ campaigns =
              SelectSeq(mergedCampaigns,
                        LAMBDA c : c = SurvivorOf(c.id))
        /\ \A k \in DOMAIN mergedCampaigns :
              (k # First(k)) => mergedCampaigns[k].id \notin Ids(campaigns)
        /\ \A i, j \in DOMAIN mergedLeads :
              LET a == mergedLeads[i]
                  b == mergedLeads[j]
              IN (/\ a.id = b.id
                  /\ a.campaignId # b.campaignId
                  /\ a.campaignId \in Ids(mergedCampaigns)
                  /\ b.campaignId \in Ids(mergedCampaigns)
                  /\ SurvivorOf(a.campaignId) = SurvivorOf(b.campaignId))
                 => Cardinality({n \in DOMAIN leads :
                                   /\ leads[n].id = a.id
                                   /\ leads[n].campaignId = SurvivorOf(a.campaignId).id}) = 1

(* The scenario of the specification: campaigns 1 and 2 of one niche written
   differently, a lead of the same id in each. *)
C4_Witness ==
    /\ MergeDone
    /\ IdSeq(mergedCampaigns) = <<"1", "2">>
    /\ mergedCampaigns[1].niche = <<"p">> /\ mergedCampaigns[2].niche = <<"P", "!">>
    /\ Keys(mergedLeads) = {<<"a_c_99990001", "1">>, <<"a_c_99990001", "2">>}
    /\ IdSeq(campaigns) = <<"1">>
    /\ Len(leads) = 1 /\ leads[1].id = "a_c_99990001" /\ leads[1].campaignId = "1"

(* C5: with a successful remote load the merged lists, before the collapse,
   hold exactly the ids (keys) of the two replicas, the remote record for one
   present remotely, the local record otherwise. *)
C5_UnionRemoteWins ==
    (initPc # "load" /\ initPath # "catch" /\ LoadSucceeded) =>
        /\ Ids(mergedCampaigns) = Ids(savedC) \cup Ids(cData.rows)
        /\ UniqueIds(mergedCampaigns)
        /\ \A i \in DOMAIN mergedCampaigns :
              IF mergedCampaigns[i].id \in Ids(cData.rows)
              THEN mergedCampaigns[i] \in Range(cData.rows)
              ELSE mergedCampaigns[i] \in Range(savedC)
        /\ Keys(mergedLeads) = Keys(savedL) \cup Keys(lData.rows)
        /\ UniqueKeys(mergedLeads)
        /\ \A i \in DOMAIN mergedLeads :
              IF <<mergedLeads[i].id, mergedLeads[i].campaignId>> \in Keys(lData.rows)
              THEN mergedLeads[i] \in Range(lData.rows)
              ELSE mergedLeads[i] \in Range(savedL)

C5_Witness ==
    /\ initPc # "load" /\ initPath # "catch" /\ LoadSucceeded
    /\ \E i \in DOMAIN savedC, j \in DOMAIN cData.rows :
          savedC[i].id = cData.rows[j].id /\ savedC[i] # cData.rows[j]
    /\ Ids(savedC) # Ids(cData.rows)
    /\ Keys(savedL) # Keys(lData.rows)

(* C6: when the remote load fails at startup, cloudStatus is offline and the
   published campaigns are one per normalized niche, the published leads
   unique by (id, campaignId). *)
C6_OfflineStillCollapsed ==
    initPath = "catch" =>
        /\ cloudStatus = "offline"
        /\ OnePerNiche(campaigns)
        /\ UniqueKeys(leads)

(* C7: when the startup merge removed a campaign and no remote write failed,
   the remote store holds no removed campaign and no lead of one, it holds
   every remapped lead under its key, and the upsert of line 97 was issued
   after every delete of line 96 had settled. *)
C7_CloudConverges ==
    (MergeDone /\ Len(campaignsToRemove) > 0 /\ writeFailures = 0) =>
        /\ Ids(cloudCampaigns) \cap Removed = {}
        /\ \A i \in DOMAIN cloudLeads : cloudLeads[i].campaignId \notin Removed
        /\ Keys(rawLeads) \subseteq Keys(cloudLeads)
        /\ \A i \in DOMAIN rawLeads : rawLeads[i].campaignId \notin Removed
        /\ settledAtSave = Len(campaignsToRemove)

C7_Witness ==
    /\ MergeDone /\ writeFailures = 0
    /\ Ids(cData.rows) \cap Removed # {}
    /\ \E i \in DOMAIN lData.rows : lData.rows[i].campaignId \in Removed
    /\ \E i \in DOMAIN savedL : savedL[i].campaignId \in Removed

-----------------------------------------------------------------------------
(* The session: what is checked of it *)

(* C8: once init has published, and after any sequence of mining folds,
   status changes, contact actions, pitch generations, duplicate cleanups and
   folder deletions, no two leads of the in-memory list share the pair
   (id, campaignId). *)
C8_LeadKeysUnique == initPc = "done" => UniqueKeys(leads)

(* The candidate cand matches the lead l for the target campaign *)
Matches(cand, l, target) ==
    \/ l.id = cand.id /\ l.campaignId = target
    \/ normalize(cand.phone) # <<>> /\ normalize(l.phone) = normalize(cand.phone)

(* Two folds in a row took the same batch for the same target, the second
   one starting from the lead set the first one left *)
SameBatchAgain ==
    /\ fold # <<>> /\ prevFold # <<>>
    /\ fold[1].batch = prevFold[1].batch
    /\ fold[1].target = prevFold[1].target
    /\ fold[1].pre = prevFold[1].post

(* C9: when a fold takes the batch the fold before it took, for the same
   target campaign and from the lead set that fold left, it accepts no lead
   and counts every candidate as skipped. *)
C9_SameBatchTwice ==
    SameBatchAgain =>
        /\ fold[1].new = 0
        /\ fold[1].skipped = Len(fold[1].batch)
        /\ fold[1].post = fold[1].pre

C9_Witness ==
    /\ SameBatchAgain
    /\ Len(fold[1].batch) = MaxBatch
    /\ prevFold[1].new > 0
    /\ fold[1].new = 0

(* C10: the leads a fold accepts are appended to the accumulated set, carry
   the target campaign, and none of them finds, among the leads before it
   (those of the run start, those accepted earlier in the run, the earlier
   candidates of its batch), a lead with its (id, target) or with its
   non-empty normalized phone; every candidate is either accepted or
   skipped. Two candidates of one batch with one non-empty phone and two
   names, unknown to the accumulated set, give one accepted lead and one
   skipped. *)
C10_AcceptedOnlyIfNoMatch ==
    fold # <<>> =>
        LET f == fold[1]
            n == Len(f.pre)
        IN /\ Len(f.post) = n + f.new
           /\ SubSeq(f.post, 1, n) = f.pre
           /\ f.new + f.skipped = Len(f.batch)
           /\ \A k \in (n + 1)..Len(f.post) :
                 /\ f.post[k].campaignId = f.target
                 /\ \E b \in DOMAIN f.batch :
                       f.batch[b].id = f.post[k].id /\ f.batch[b].phone = f.post[k].phone
                 /\ \A j \in 1..(k - 1) : ~Matches(f.post[k], f.post[j], f.target)
           /\ ( /\ Len(f.batch) = 2
                /\ f.batch[1].id # f.batch[2].id
                /\ normalize(f.batch[1].phone) # <<>>
                /\ normalize(f.batch[1].phone) = normalize(f.batch[2].phone)
                /\ \A j \in 1..n : ~Matches(f.batch[1], f.pre[j], f.target) )
              => (f.new = 1 /\ f.skipped = 1)

C10_Witness ==
    /\ minePc[1] = "saveLeads"
    /\ mineIdx[1] = 1
    /\ fold # <<>>
    /\ Len(fold[1].batch) = 2
    /\ fold[1].batch[1].id # fold[1].batch[2].id
    /\ normalize(fold[1].batch[1].phone) # <<>>
    /\ normalize(fold[1].batch[1].phone) = normalize(fold[1].batch[2].phone)
    /\ Len(fold[1].pre) > 0
    /\ Len(batchToSave[1]) = 1
    /\ totalNew[1] = 1
    /\ totalSkipped[1] = 1

-----------------------------------------------------------------------------
(* The mining loop: errors, completion, navigation, re-entrancy *)

(* services/gemini.ts line 21: what withRetry takes for the quota error *)
QuotaSignal(err) == Includes(err.message, "429") \/ err.status = 429

(* services/gemini.ts line 100: the missing-credential error *)
CredentialSignal(err) == Includes(err.message, "API_KEY_MISSING")

InFlight(r) == minePc[r] \in {"saveCampaign", "search", "saveLeads"}

(* C11: when the search of neighbourhood i rejects with an error carrying the
   quota signal or the missing-credential signal, the run searches no
   neighbourhood after i (it has ended at i) and an error message was set. *)
C11_SignalHalts ==
    \A r \in Runs : \A k \in DOMAIN errors[r] :
        (QuotaSignal(errors[r][k].err) \/ CredentialSignal(errors[r][k].err))
        => /\ minePc[r] = "done"
           /\ mineIdx[r] = errors[r][k].at
           /\ errors[r][k].message # ""

(* The step of run r in which a search rejects with neither signal *)
OtherErrorStep(r) ==
    /\ Len(errors'[r]) = Len(errors[r]) + 1
    /\ ~QuotaSignal(errors'[r][Len(errors'[r])].err)
    /\ ~CredentialSignal(errors'[r][Len(errors'[r])].err)

(* C12: when the search of neighbourhood i rejects with an error carrying
   neither signal, an error message is set, the run goes on to search
   neighbourhood i+1 if there is one (and ends otherwise), and neighbourhood
   i adds no lead and is not marked completed. *)
C12_OtherErrorContinues ==
    [][\A r \in Runs : OtherErrorStep(r) =>
          /\ errorMessage' # ""
          /\ IF mineIdx[r] < Len(neighborhoods[r])
             THEN /\ minePc'[r] = "search"
                  /\ mineIdx'[r] = mineIdx[r] + 1
                  /\ miningProgress' = <<[current |-> mineIdx[r] + 1,
                                          completed |-> processedBairros[r]]>>
             ELSE minePc'[r] = "done"
          /\ currentLeadsState'[r] = currentLeadsState[r]
          /\ totalNew'[r] = totalNew[r]
          /\ leads' = leads
          /\ cloudLeads' = cloudLeads
          /\ processedBairros'[r] = processedBairros[r]
          /\ neighborhoods[r][mineIdx[r]] \notin Range(processedBairros'[r])]_vars

C12_Witness ==
    \E r \in Runs :
        /\ minePc[r] = "search"
        /\ mineIdx[r] = 2
        /\ Len(errors[r]) = 1
        /\ errors[r][1].at = 1
        /\ ~QuotaSignal(errors[r][1].err)
        /\ ~CredentialSignal(errors[r][1].err)
        /\ errorMessage = "unexpected"
        /\ processedBairros[r] = <<>>

(* C13: every mining run that starts ends, given that each awaited call
   settles, and where it ends isMining is false, miningProgress is cleared and
   cloudStatus is 'online', whichever way the loop was left. *)
C13_RunEndsReset ==
    \A r \in Runs :
        InFlight(r) ~> ( /\ minePc[r] = "done"
                         /\ ~isMining
                         /\ miningProgress = <<>>
                         /\ cloudStatus = "online" )

C13_Witness ==
    \E r \in Runs :
        /\ minePc[r] = "done"
        /\ mineIdx[r] < Len(neighborhoods[r])
        /\ errors[r] # <<>>
        /\ ~isMining
        /\ miningProgress = <<>>
        /\ cloudStatus = "online"

(* C14: a mining run schedules the automatic move to the leads view exactly
   when it accepted at least one new lead and no error was raised during it. *)
C14_NavigatesIffCleanAndNew ==
    \A r \in Runs :
        minePc[r] = "done" => (navScheduled[r] <=> (totalNew[r] > 0 /\ errors[r] = <<>>))

(* C15: at most one mining run is in flight at any time, and so at most one
   provider search. *)
C15_OneRunAtATime ==
    /\ Cardinality({r \in Runs : InFlight(r)}) <= 1
    /\ Cardinality({r \in Runs : minePc[r] = "search"}) <= 1

(* The step in which handleStartMining resolves the target campaign of run r *)
ResolveStep(r) == minePc[r] = "idle" /\ minePc'[r] = "saveCampaign"

(* The step in which run r begins its first search *)
FirstSearchStep(r) == minePc[r] # "search" /\ minePc'[r] = "search" /\ mineIdx'[r] = 1

(* C16: resolving the target campaign never makes a second campaign of a
   normalized niche: a campaign of the requested niche, if there is one, has
   its id reused and only its lastSyncAt changed; otherwise exactly one
   campaign is created; the campaign was handed to the store before the first
   search of the run; and runs keep 'at most one campaign per normalized
   niche'. *)
C16_ResolutionKeepsOnePerNiche ==
    [][/\ \A r \in Runs : ResolveStep(r) =>
             LET target == pendingCampaign'[r][1]
                 same == {i \in DOMAIN campaigns : NicheKey(campaigns[i]) = NicheKey(target)}
             IN /\ targetCampaignId'[r] = target.id
                /\ IF same # {}
                   THEN /\ Len(campaigns') = Len(campaigns)
                        /\ \E i \in same : campaigns[i].id = target.id
                        /\ \A i \in DOMAIN campaigns :
                              /\ campaigns'[i].id = campaigns[i].id
                              /\ campaigns'[i].niche = campaigns[i].niche
                              /\ campaigns[i].id # target.id => campaigns'[i] = campaigns[i]
                   ELSE /\ campaigns' = <<target>> \o campaigns
                        /\ \A i \in DOMAIN campaigns : campaigns[i].id # target.id
       /\ \A r \in Runs : FirstSearchStep(r) =>
             /\ minePc[r] = "saveCampaign"
             /\ pendingCampaign[r] # <<>>
             /\ pendingCampaign[r][1].id = targetCampaignId[r]
             /\ writeFailures' = writeFailures
                  => pendingCampaign[r][1] \in Range(cloudCampaigns')
       /\ OnePerNiche(campaigns) => OnePerNiche(campaigns')]_vars

C16_Witness ==
    /\ runs = 2
    /\ minePc[1] = "done"
    /\ minePc[2] = "search"
    /\ Len(campaigns) = 1
    /\ targetCampaignId[2] = targetCampaignId[1]
    /\ campaigns[1].id = targetCampaignId[2]
    /\ pendingCampaign[1][1].id = campaigns[1].id
    /\ campaigns[1].lastSyncAt > pendingCampaign[1][1].lastSyncAt

-----------------------------------------------------------------------------
(* Folder deletion, duplicate cleanup, the contact action *)

(* The step in which handleDeleteCampaign reaches its last line *)
DeleteFinishStep == delPc # "idle" /\ delPc' = "idle"

(* The step in which handleCleanDuplicates reaches its last line *)
CleanFinishStep == cleanPc = "delete" /\ cleanPc' = "idle"

(* A request to the store fails in this step *)
FailedNow == writeFailures' > writeFailures

(* The ids of the campaigns of list cs whose normalized niche is key *)
IdsOfNiche(cs, key) == {cs[i].id : i \in {j \in DOMAIN cs : normalize(cs[j].niche) = key}}

(* C17: when a confirmed folder deletion for campaign C finishes, neither the
   in-memory lists nor the remote store hold a campaign of C's normalized
   niche or a lead of such a campaign, the campaigns of other niches and
   their leads are as they were, and activeCampaignId is null if it was one
   of the deleted ids. *)
C17_FolderDeleted ==
    [][DeleteFinishStep =>
          LET gone == IdsOfNiche(campaigns, delNiche) \cup IdsOfNiche(cloudCampaigns, delNiche)
          IN /\ IdsOfNiche(campaigns', delNiche) = {}
             /\ IdsOfNiche(cloudCampaigns', delNiche) = {}
             /\ \A i \in DOMAIN leads' : leads'[i].campaignId \notin gone
             /\ \A i \in DOMAIN cloudLeads' : cloudLeads'[i].campaignId \notin gone
             /\ campaigns' = SelectSeq(campaigns, LAMBDA c : normalize(c.niche) # delNiche)
             /\ leads' = SelectSeq(leads, LAMBDA l : l.campaignId \notin gone)
             /\ activeCampaignId' = IF activeCampaignId \in gone THEN "" ELSE activeCampaignId]_vars

(* C18: when a remote delete fails during a folder deletion or a duplicate
   cleanup, the handler ends with a failure notice and leaves the in-memory
   campaigns and leads as they were. *)
C18_FailedDeleteKeepsMemory ==
    [][/\ (DeleteFinishStep /\ (delFailed \/ FailedNow)) =>
             (notice' = "deleteFailed" /\ campaigns' = campaigns /\ leads' = leads)
       /\ (CleanFinishStep /\ (cleanFailed \/ FailedNow)) =>
             (notice' = "cleanFailed" /\ campaigns' = campaigns /\ leads' = leads)]_vars

(* C19: the contact action sets the status 'contacted' only on a lead whose
   status is 'new', and leaves any other status as it is. *)
C19_ContactOnlyFromNew ==
    contacted # <<>> =>
        contacted[1].after = (IF contacted[1].before = "new" THEN "contacted"
                              ELSE contacted[1].before)

(* In the scope of the last scan: lead j comes before lead i in the order
   'lastSeenAt descending', leads of one date keeping the order of the list *)
Precedes(j, i) ==
    LET sc == scan[1].scope
    IN \/ sc[j].lastSeenAt > sc[i].lastSeenAt
       \/ sc[j].lastSeenAt = sc[i].lastSeenAt /\ j < i

(* Lead i of the scope is among the duplicates found *)
Flagged(i) == \E k \in DOMAIN scan[1].dupes : scan[1].dupes[k] = scan[1].scope[i]

SamePhone(i, j) == normalize(scan[1].scope[i].phone) = normalize(scan[1].scope[j].phone)

(* C20: the scan flags a lead exactly when its normalized phone is not empty
   and a lead of the scope with the same normalized phone precedes it in the
   order 'lastSeenAt descending, absent as the epoch'; of the leads of one
   phone exactly one is kept, none of them more recent than it; a lead with
   no phone is never flagged. *)
C20_FlagsAllButMostRecent ==
    scan # <<>> =>
        LET sc == scan[1].scope
            HasPhone(i) == normalize(sc[i].phone) # <<>>
        IN /\ \A i \in DOMAIN sc :
                 Flagged(i) <=> ( /\ HasPhone(i)
                                  /\ \E j \in DOMAIN sc \ {i} : SamePhone(i, j) /\ Precedes(j, i) )
           /\ Cardinality({i \in DOMAIN sc : Flagged(i)}) = Len(scan[1].dupes)
           /\ \A i \in DOMAIN sc : HasPhone(i) =>
                 LET kept == {k \in DOMAIN sc : SamePhone(i, k) /\ ~Flagged(k)}
                 IN /\ Cardinality(kept) = 1
                    /\ \A k \in kept : \A j \in DOMAIN sc :
                          SamePhone(i, j) => sc[j].lastSeenAt <= sc[k].lastSeenAt
           /\ \A i \in DOMAIN sc : ~HasPhone(i) => ~Flagged(i)

C20_Witness ==
    /\ scan # <<>>
    /\ Len(scan[1].scope) = 3
    /\ Len(scan[1].dupes) = 1
    /\ Flagged(1)
    /\ scan[1].scope[1].phone # scan[1].scope[3].phone
    /\ SamePhone(1, 3)
    /\ scan[1].scope[2].phone = <<>>
    /\ cleanPc = "delete"

(* The keys of the leads handleCleanDuplicates is deleting *)
FlaggedKeys == {LeadKey(dupesFound[k]) : k \in DOMAIN dupesFound}

Unflagged(ls) == SelectSeq(ls, LAMBDA l : LeadKey(l) \notin FlaggedKeys)

(* C21: the duplicate cleanup deletes nothing unless the user confirms: the
   scan itself changes neither the in-memory leads nor the store, and the
   deletion starts only on a confirmed scan that found duplicates; once the
   confirmed cleanup is over, exactly the flagged leads are gone from the
   in-memory list and from the store, every other lead being as it was; the
   notice of a scan without duplicates differs from that of a cleanup. *)
C21_CleanupOnlyWhenConfirmed ==
    [][/\ scan' # scan =>
             /\ leads' = leads /\ cloudLeads' = cloudLeads /\ campaigns' = campaigns
             /\ cleanPc' = "delete" <=> (scan'[1].confirmed /\ scan'[1].dupes # <<>>)
             /\ scan'[1].dupes = <<>> => notice' = "noDuplicates"
       /\ (cleanPc = "delete" /\ ~CleanFinishStep) => leads' = leads
       /\ CleanFinishStep =>
             /\ leads' = Unflagged(leads)
             /\ Unflagged(cloudLeads') = Unflagged(cloudLeads)
             /\ \A i \in DOMAIN cloudLeads' : LeadKey(cloudLeads'[i]) \notin FlaggedKeys
             /\ notice' = "cleaned"]_vars

-----------------------------------------------------------------------------
(* Remote writes that fail *)

(* No error reaches the caller of the write *)
NoErrorRaised == errors' = errors /\ errorMessage' = errorMessage

(* C22: whatever the outcome of the remote write of a campaign save, a mining
   batch save, a status change, a contact action or a pitch save, no error is
   raised and the in-memory lists after it hold the value the operation
   wrote: the same lists after a failed write as after a successful one. *)
C22_FailedWriteKeepsMemory ==
    [][\A out \in Outcomes :
          /\ \A r \in Runs : MineCampaignSaved(r, out) =>
                /\ campaigns' = campaigns /\ leads' = leads
                /\ minePc'[r] = "search"
                /\ NoErrorRaised
          /\ \A r \in Runs : MineLeadsSaved(r, out) =>
                /\ leads' = currentLeadsState[r]
                /\ \A k \in DOMAIN batchToSave[r] : batchToSave[r][k] \in Range(leads')
                /\ campaigns' = campaigns
                /\ neighborhoods[r][mineIdx[r]] \in Range(processedBairros'[r])
                /\ NoErrorRaised
          /\ \A status \in Statuses : StatusChange(status, out) =>
                LET updatedLead == [selectedLead[1] EXCEPT !.status = status]
                IN /\ selectedLead' = <<updatedLead>>
                   /\ leads' = ReplaceById(leads, selectedLead[1].id, updatedLead)
                   /\ campaigns' = campaigns
                   /\ NoErrorRaised
          /\ Contact(out) =>
                /\ \A i \in DOMAIN leads :
                      leads'[i] = IF leads[i].id = selectedLead[1].id
                                  THEN [leads[i] EXCEPT !.status = "contacted"] ELSE leads[i]
                /\ Len(leads') = Len(leads)
                /\ campaigns' = campaigns
                /\ NoErrorRaised
          /\ PitchDone(out) =>
                LET updatedLead == [pitchLead[1] EXCEPT !.notes = PitchNotes.pitch]
                IN /\ selectedLead' = <<updatedLead>>
                   /\ leads' = ReplaceById(leads, pitchLead[1].id, updatedLead)
                   /\ campaigns' = campaigns
                   /\ NoErrorRaised]_vars

C22_Witness ==
    \E r \in Runs :
        /\ minePc[r] = "done"
        /\ writeFailures = 1
        /\ totalNew[r] = 1
        /\ leads = currentLeadsState[r]
        /\ \E i \in DOMAIN leads :
              /\ leads[i].campaignId = targetCampaignId[r]
              /\ leads[i] \in Range(batchToSave[r])
              /\ \A k \in DOMAIN cloudLeads : LeadKey(cloudLeads[k]) # LeadKey(leads[i])

(* C23: whenever a remote write (an upsert of leads or of a campaign, a
   delete of a campaign or of a lead) fails, cloudStatus becomes 'offline'. *)
C23_FailedWriteGoesOffline ==
    [][FailedNow => cloudStatus' = "offline"]_vars

(* The leads run r has accepted so far: what it pushed onto currentLeadsState *)
Accepted(r) ==
    IF minePc[r] \in {"search", "saveLeads", "done"}
    THEN SubSeq(currentLeadsState[r], Len(closureLeads[r]) + 1, Len(currentLeadsState[r]))
    ELSE <<>>

IsPrefix(s, t) == Len(s) <= Len(t) /\ SubSeq(t, 1, Len(s)) = s

(* C24: the leads a mining run has accepted are never given up: an error
   step, halting or not, leaves the run's lead set, the in-memory leads and
   the store as they are; the accepted leads only grow during the run; and
   between two rounds and after the run every accepted lead is in the
   in-memory list, and in the store unless a write failed. *)
C24_AcceptedNeverShrinks ==
    [][\A r \in Runs :
          /\ Len(errors'[r]) > Len(errors[r]) =>
                /\ currentLeadsState'[r] = currentLeadsState[r]
                /\ leads' = leads
                /\ cloudLeads' = cloudLeads
          /\ IsPrefix(Accepted(r), Accepted(r)')
          /\ minePc'[r] \in {"search", "done"} =>
                \A k \in DOMAIN Accepted(r)' :
                    /\ Accepted(r)'[k] \in Range(leads')
                    /\ writeFailures' = 0 => Accepted(r)'[k] \in Range(cloudLeads')]_vars

C24_Witness ==
    \E r \in Runs :
        /\ minePc[r] = "done"
        /\ Len(errors[r]) = 1
        /\ errors[r][1].at = 2
        /\ Halts(errors[r][1].err)
        /\ Len(Accepted(r)) = 1
        /\ Accepted(r)[1] \in Range(leads)
        /\ Accepted(r)[1] \in Range(cloudLeads)

-----------------------------------------------------------------------------
(* vCard export *)

(* The national number of a phone: its digits, without the country code when
   the phone was written with one (12 or 13 digits) *)
NationalNumber(phone) ==
    LET digits == CleanPhone(phone)
    IN IF Len(digits) \in {12, 13} THEN SubSeq(digits, 3, Len(digits)) ELSE digits

(* C25: for every phone made of a 10- or 11-digit national number, with or
   without the country code 55 in front, the vCard export writes '+55'
   followed by the national number: the prefix is added when the country code
   is missing and never doubled when it is there. *)
C25_ExportWritesCountryCodeOnce ==
    vcardContent # <<>> =>
        \A i \in DOMAIN leads :
            Len(NationalNumber(leads[i].phone)) \in {10, 11} =>
                vcardContent[i] = <<"+", "5", "5">> \o NationalNumber(leads[i].phone)

-----------------------------------------------------------------------------
(* normalize *)

(* C26: normalize is idempotent, normalize(normalize(T)) = normalize(T), and
   its result holds only characters of [a-z0-9]. *)
C26_NormalizeIdempotent ==
    Len(normalized) = 3 =>
        /\ normalized[3] = normalized[2]
        /\ \A k \in DOMAIN normalized[2] : IsAlnum(normalized[2][k])

C26_Witness ==
    /\ Len(normalized) = 3
    /\ normalized[1] = <<"P", " ", "!">>
    /\ normalized[2] = <<"p">>
    /\ normalized[3] = <<"p">>

-----------------------------------------------------------------------------
(* The scope of the duplicate test of a run *)

(* Lead l belongs to the target campaign of the fold, or to a campaign of its folder *)
InTargetScope(l, target) ==
    \/ l.campaignId = target
    \/ \E i, j \in DOMAIN campaigns :
          /\ campaigns[i].id = target
          /\ campaigns[j].id = l.campaignId
          /\ normalize(campaigns[j].niche) = normalize(campaigns[i].niche)

(* C27: a candidate is skipped on its phone only when a lead of the target
   campaign (or of its folder) has that normalized phone: a candidate that
   matches no lead of the target scope and no earlier candidate of its batch,
   whatever leads of other niches' campaigns share its phone, is accepted. *)
C27_PhoneAxisInTargetScope ==
    fold # <<>> =>
        LET f == fold[1]
            n == Len(f.pre)
        IN \A b \in DOMAIN f.batch :
              ( /\ \A j \in 1..n :
                      InTargetScope(f.pre[j], f.target) => ~Matches(f.batch[b], f.pre[j], f.target)
                /\ \A c \in 1..(b - 1) :
                      /\ f.batch[c].id # f.batch[b].id
                      /\ normalize(f.batch[c].phone) # normalize(f.batch[b].phone) )
              => \E k \in (n + 1)..Len(f.post) : f.post[k].id = f.batch[b].id

-----------------------------------------------------------------------------
(* A run publishing its leads while other handlers have changed them *)

(* Run r publishes its lead set with this step (line 258) *)
Publishes(r) == minePc[r] = "saveLeads" /\ minePc'[r] # "saveLeads"

(* C28: what another handler did to the in-memory leads while a run was
   suspended is still there once the run has published its next fold: every
   lead in memory before the publication is there after it, unchanged, and
   every lead in memory after it was there before or is of the batch just
   folded. *)
C28_PublishKeepsOtherChanges ==
    [][\A r \in Runs :
          Publishes(r) =>
              /\ \A i \in DOMAIN leads : leads[i] \in Range(leads')
              /\ \A i \in DOMAIN leads' :
                    leads'[i] \in Range(leads) \cup Range(batchToSave[r])]_vars

-----------------------------------------------------------------------------
(* Destruction and the next startup *)

(* C29: once a folder deletion or a cleanup has ended, no state in which init
   has published, the one after the next startup included, holds a deleted
   campaign, a lead of a deleted campaign or a lead the cleanup removed. *)
C29_DestructionSurvivesRestart ==
    initPc = "done" =>
        /\ \A i \in DOMAIN campaigns : campaigns[i].id \notin destroyed.campaigns
        /\ \A i \in DOMAIN leads :
              /\ leads[i].campaignId \notin destroyed.campaigns
              /\ LeadKey(leads[i]) \notin destroyed.leads

-----------------------------------------------------------------------------
(* Referential integrity *)

(* C30: in every state after startup every in-memory lead's campaignId is the
   id of an in-memory campaign (so no lead outlives its campaign, and a mined
   lead belongs to a campaign that is there). *)
C30_LeadsBelongToCampaigns ==
    initPc = "done" => \A i \in DOMAIN leads : leads[i].campaignId \in Ids(campaigns)

=============================================================================
